---- MODULE Spec2Model ----
(***************************************************************************)
(* DataMerge MCP server: the streamable-HTTP session router                *)
(* (DataMergeMCPStreamable) and the start-and-wait job poller.             *)
(*                                                                         *)
(* Strings are sequences of one-character strings, so that the header      *)
(* parsing (startsWith / substring / trim) is computed, not assumed.       *)
(* The JavaScript value `undefined` is the one-element sequence Undefined. *)
(***************************************************************************)
EXTENDS Integers, Sequences, FiniteSets, Bags, TLC

(* ------------------------------ bounds -------------------------------- *)

\* Number of session identifiers the transport layer may allocate.
MaxSessions == 2
\* Number of tool invocations handed to the MCP server and not yet started.
MaxInflight == 1

(* ------------------------------ strings ------------------------------- *)

Undefined == <<"undefined">>

\* JavaScript truthiness of a `string | undefined` value.
Truthy(s) == s # Undefined /\ s # <<>>

StartsWith(s, p) == Len(s) >= Len(p) /\ SubSeq(s, 1, Len(p)) = p

\* String.prototype.substring(n)
Substring(s, n) == SubSeq(s, n + 1, Len(s))

RECURSIVE TrimStart(_)
TrimStart(s) == IF s # <<>> /\ Head(s) = " " THEN TrimStart(Tail(s)) ELSE s

RECURSIVE TrimEnd(_)
TrimEnd(s) ==
    IF s # <<>> /\ s[Len(s)] = " " THEN TrimEnd(SubSeq(s, 1, Len(s) - 1)) ELSE s

\* String.prototype.trim()
Trim(s) == TrimEnd(TrimStart(s))

\* a ?? b
Coalesce(a, b) == IF a # Undefined THEN a ELSE b

BearerPrefix == <<"B", "e", "a", "r", "e", "r", " ">>
TokenPrefix == <<"T", "o", "k", "e", "n", " ">>
BasicPrefix == <<"B", "a", "s", "i", "c", " ">>

KeyA == <<"a">>
KeyB == <<"b">>
KeyC == <<"c">>

\* Authorization header values a request may carry.
AuthHeaders ==
    { Undefined,
      BearerPrefix \o KeyA,
      TokenPrefix \o KeyA,
      TokenPrefix \o <<" ">> \o KeyC \o <<" ">>,
      TokenPrefix \o <<" ">>,
      BasicPrefix \o KeyA }

\* The headers of the form "Bearer <key>" or "Token <key>", and the key each
\* carries.
KeyHeaders == {BearerPrefix \o KeyA, TokenPrefix \o KeyA}
KeyOfHeader(h) == IF h \in KeyHeaders THEN KeyA ELSE Undefined

\* Values of the DATAMERGE_API_KEY environment variable.
EnvValues == {Undefined, KeyB}

GoodUrl == <<"h", ":", "/", "/", "x">>
BadUrl == <<"x">>

\* z.string().url(): the string parses as a URL (it has a scheme).
IsUrl(s) == \E i \in 2..Len(s) : s[i] = ":" /\ \A j \in 1..(i - 1) : s[j] # ":"

(* ------------------------------ clients ------------------------------- *)

NoClient == [id |-> 0, apiKey |-> Undefined, baseUrl |-> Undefined]

\* DataMergeConfigSchema: apiKey is a non-empty string, baseUrl an optional URL.
DataMergeConfigSchemaOk(key, baseUrl) ==
    /\ key # Undefined /\ Len(key) >= 1
    /\ (baseUrl = Undefined \/ IsUrl(baseUrl))

\* new DataMergeClient({apiKey, baseUrl}), stored where `prev` was: a new
\* object, holding the validated config. Object identity is kept modulo 2 per
\* map slot: the new object differs from the one it replaces (id 0 is NoClient).
DataMergeClient(prev, key, baseUrl) ==
    [id |-> IF prev.id = 1 THEN 2 ELSE 1, apiKey |-> key, baseUrl |-> baseUrl]

Sids == 1..MaxSessions
NoSid == 0

VARIABLES
    transports,   \* set of session ids with a registered transport handle
    clients,      \* session id -> DataMergeClient, NoClient when the map has no entry
    apiKeys,      \* session id -> remembered key, Undefined when the map has no entry
    nextSid,      \* next session id the generator hands out
    env,          \* process.env.DATAMERGE_API_KEY
    inflight,     \* bag of tool invocations routed to a transport, handler not yet started
    last,         \* what the last step did (request, response, tool result)
    initAuth,     \* history: session id -> the key-carrying Authorization header of its
                  \* initialize request, Undefined once configure_datamerge ran for it
    terminated,   \* history: the session ids whose transport has closed
    poll,         \* the start_company_enrichment_and_wait call being served
    now,          \* Date.now(), milliseconds
    stdioClient,  \* the stdio server's client (this.client), NoClient when null
    disp,         \* the last tool call dispatched as a whole, and what the caller got
    rec,          \* a raw upstream record and what mapCompanyRecord made of it
    log,          \* the entries written by console.log: the place and the request text in them
    apiCall,      \* a DataMergeClient method call: its input, the upstream outcome, its result
    objs          \* the config objects of one DataMergeClient and of its caller, by address

vars == <<transports, clients, apiKeys, nextSid, env, inflight, last, initAuth,
          terminated, poll, now, stdioClient, disp, rec, log, apiCall, objs>>

pollVars == <<poll, now, stdioClient, disp, rec, log, apiCall, objs>>

\* The client map and the key map, passed through the handlers.
Store == [clients |-> clients, apiKeys |-> apiKeys]

(* ------------------- DataMergeMCPStreamable: handlers ------------------ *)

\* The key carried by an Authorization header: the text after a "Bearer " or
\* "Token " prefix, Undefined for any other header or none.
ExtractApiKey_BearerOnly(authHeader) ==
    IF ~Truthy(authHeader) THEN Undefined
    ELSE IF StartsWith(authHeader, BearerPrefix)
         THEN Substring(authHeader, Len(BearerPrefix))
    ELSE Undefined

ExtractApiKey_TokenOnly(authHeader) ==
    IF ~Truthy(authHeader) THEN Undefined
    ELSE IF StartsWith(authHeader, TokenPrefix)
         THEN Substring(authHeader, Len(TokenPrefix))
    ELSE Undefined

ExtractApiKey(authHeader) ==
    IF ~Truthy(authHeader) THEN Undefined
    ELSE IF StartsWith(authHeader, BearerPrefix)
         THEN Substring(authHeader, Len(BearerPrefix))
    ELSE IF StartsWith(authHeader, TokenPrefix)
         THEN Substring(authHeader, Len(TokenPrefix))
    ELSE Undefined

tryConfigureClientFromAuthHeader_Rebuilds(st, authHeader, sessionId) ==
    LET apiKey == ExtractApiKey(authHeader) IN
    IF Truthy(apiKey) /\ Truthy(Trim(apiKey))
    THEN [st EXCEPT
            !.apiKeys[sessionId] = Trim(apiKey),
            !.clients[sessionId] =
                DataMergeClient(st.clients[sessionId], Trim(apiKey), Undefined)]
    ELSE st

\* tryConfigureClientFromAuthHeader(authHeader, sessionId) on store st.
tryConfigureClientFromAuthHeader(st, authHeader, sessionId) ==
    LET apiKey == ExtractApiKey(authHeader) IN
    IF Truthy(apiKey) /\ Truthy(Trim(apiKey))
    THEN LET st1 == [st EXCEPT !.apiKeys[sessionId] = Trim(apiKey)] IN
         IF st1.clients[sessionId] = NoClient
         THEN [st1 EXCEPT
                 !.clients[sessionId] =
                     DataMergeClient(NoClient, Trim(apiKey), Undefined)]
         ELSE st1
    ELSE st

\* getClientForSession(sessionId): the store afterwards, the client returned
\* (NoClient when it throws) and whether it threw.
getClientForSession_NoFallback(st, sessionId, envKey) ==
    IF sessionId = 0
    THEN [st |-> st, client |-> NoClient, threw |-> TRUE]
    ELSE IF st.clients[sessionId] # NoClient
    THEN [st |-> st, client |-> st.clients[sessionId], threw |-> FALSE]
    ELSE IF Truthy(st.apiKeys[sessionId])
    THEN LET c == DataMergeClient(NoClient, st.apiKeys[sessionId], Undefined) IN
         [st |-> [st EXCEPT !.clients[sessionId] = c],
          client |-> c, threw |-> FALSE]
    ELSE [st |-> st, client |-> NoClient, threw |-> TRUE]

getClientForSession_AnyRememberedKey(st, sessionId, envKey) ==
    LET own == IF sessionId = 0 THEN Undefined ELSE st.apiKeys[sessionId]
        others == {t \in Sids : Truthy(st.apiKeys[t])}
        key == IF Truthy(own) THEN own
               ELSE IF others # {} THEN st.apiKeys[CHOOSE t \in others : TRUE]
               ELSE envKey
    IN
    IF sessionId = 0
    THEN [st |-> st, client |-> NoClient, threw |-> TRUE]
    ELSE IF st.clients[sessionId] # NoClient
    THEN [st |-> st, client |-> st.clients[sessionId], threw |-> FALSE]
    ELSE IF ~Truthy(key)
    THEN [st |-> st, client |-> NoClient, threw |-> TRUE]
    ELSE LET c == DataMergeClient(NoClient, key, Undefined) IN
         [st |-> [st EXCEPT !.clients[sessionId] = c],
          client |-> c, threw |-> FALSE]

getClientForSession_AlwaysConstructs(st, sessionId, envKey) ==
    LET key == IF sessionId # 0 /\ Truthy(st.apiKeys[sessionId])
               THEN st.apiKeys[sessionId] ELSE envKey
    IN
    IF sessionId = 0 \/ ~Truthy(key)
    THEN [st |-> st, client |-> NoClient, threw |-> TRUE]
    ELSE LET c == DataMergeClient(st.clients[sessionId], key, Undefined) IN
         [st |-> [st EXCEPT !.clients[sessionId] = c],
          client |-> c, threw |-> FALSE]

getClientForSession(st, sessionId, envKey) ==
    IF sessionId = 0
    THEN [st |-> st, client |-> NoClient, threw |-> TRUE]
    ELSE IF st.clients[sessionId] # NoClient
    THEN [st |-> st, client |-> st.clients[sessionId], threw |-> FALSE]
    ELSE IF Truthy(st.apiKeys[sessionId])
    THEN LET c == DataMergeClient(NoClient, st.apiKeys[sessionId], Undefined) IN
         [st |-> [st EXCEPT !.clients[sessionId] = c],
          client |-> c, threw |-> FALSE]
    ELSE IF ~Truthy(envKey)
    THEN [st |-> st, client |-> NoClient, threw |-> TRUE]
    ELSE LET c == DataMergeClient(NoClient, envKey, Undefined) IN
         [st |-> [st EXCEPT !.clients[sessionId] = c],
          client |-> c, threw |-> FALSE]

configure_datamerge_MutatesInPlace(st, sessionId, apiKey, baseUrl, envKey) ==
    LET key == Coalesce(apiKey, envKey) IN
    IF sessionId = 0
    THEN [st |-> st, client |-> NoClient, threw |-> TRUE]
    ELSE IF ~Truthy(key)
    THEN [st |-> st, client |-> NoClient, threw |-> TRUE]
    ELSE LET st1 == [st EXCEPT !.apiKeys[sessionId] = key] IN
         IF ~DataMergeConfigSchemaOk(key, baseUrl)
         THEN [st |-> st1, client |-> NoClient, threw |-> TRUE]
         ELSE LET c == IF st.clients[sessionId] = NoClient
                       THEN DataMergeClient(NoClient, key, baseUrl)
                       ELSE [st.clients[sessionId] EXCEPT
                               !.apiKey = key, !.baseUrl = baseUrl]
              IN  [st |-> [st1 EXCEPT !.clients[sessionId] = c],
                   client |-> c, threw |-> FALSE]

\* The configure_datamerge tool handler, called with {apiKey, baseUrl}.
configure_datamerge(st, sessionId, apiKey, baseUrl, envKey) ==
    LET key == Coalesce(apiKey, envKey) IN
    IF sessionId = 0
    THEN [st |-> st, client |-> NoClient, threw |-> TRUE]
    ELSE IF ~Truthy(key)
    THEN [st |-> st, client |-> NoClient, threw |-> TRUE]
    ELSE LET st1 == [st EXCEPT !.apiKeys[sessionId] = key] IN
         IF ~DataMergeConfigSchemaOk(key, baseUrl)
         THEN [st |-> st1, client |-> NoClient, threw |-> TRUE]
         ELSE LET c == DataMergeClient(st.clients[sessionId], key, baseUrl) IN
              [st |-> [st1 EXCEPT !.clients[sessionId] = c],
               client |-> c, threw |-> FALSE]

\* transport.onclose for the transport whose session id is sid: the three
\* map entries are deleted when the transport is still registered.
onclose_Unguarded(tr, st, sid) ==
    [transports |-> tr \ {sid},
     st |-> IF sid = 0 THEN st
            ELSE [st EXCEPT !.clients[sid] = NoClient, !.apiKeys[sid] = Undefined]]

onclose_KeepsCredential(tr, st, sid) ==
    IF sid # 0 /\ sid \in tr
    THEN [transports |-> tr \ {sid}, st |-> [st EXCEPT !.clients[sid] = NoClient]]
    ELSE [transports |-> tr, st |-> st]

onclose_KeepsTransport(tr, st, sid) ==
    IF sid # 0 /\ sid \in tr
    THEN [transports |-> tr,
          st |-> [st EXCEPT !.clients[sid] = NoClient, !.apiKeys[sid] = Undefined]]
    ELSE [transports |-> tr, st |-> st]

onclose(tr, st, sid) ==
    IF sid # 0 /\ sid \in tr
    THEN [transports |-> tr \ {sid},
          st |-> [st EXCEPT !.clients[sid] = NoClient, !.apiKeys[sid] = Undefined]]
    ELSE [transports |-> tr, st |-> st]

(* ------------------------- requests and results ------------------------ *)

NoCall == [tool |-> "none", apiKey |-> Undefined, baseUrl |-> Undefined]

\* tools/call messages: configure_datamerge with its two optional arguments,
\* and health_check for every tool whose handler starts with the client lookup.
ToolCalls ==
    { [tool |-> "health_check", apiKey |-> Undefined, baseUrl |-> Undefined],
      [tool |-> "configure_datamerge", apiKey |-> Undefined, baseUrl |-> Undefined],
      [tool |-> "configure_datamerge", apiKey |-> <<>>, baseUrl |-> Undefined],
      [tool |-> "configure_datamerge", apiKey |-> KeyC, baseUrl |-> GoodUrl],
      [tool |-> "configure_datamerge", apiKey |-> KeyC, baseUrl |-> BadUrl] }

\* JSON-RPC bodies of a POST: an initialize request, a notification, a tool call.
Bodies ==
    {[method |-> "initialize", call |-> NoCall],
     [method |-> "notifications/initialized", call |-> NoCall]}
    \cup [method : {"tools/call"}, call : ToolCalls]

isInitializeRequest(body) == body.method = "initialize"

\* The observable outcome of a step.
Event(op, sid, status, body, code, call, result, client) ==
    [op |-> op, sid |-> sid, status |-> status, body |-> body, code |-> code,
     call |-> call, result |-> result, client |-> client]

NoEvent == Event("none", 0, 0, "none", 0, NoCall, "none", NoClient)

SetStore(st) ==
    /\ clients' = st.clients
    /\ apiKeys' = st.apiKeys

(* ----------------- start_company_enrichment_and_wait ------------------ *)

\* The poll interval and the timeout used when the argument is absent, not a
\* number, or not positive (milliseconds).
DefaultPollIntervalMs == 5000
DefaultTimeoutMs == 60000

\* An optional numeric tool argument: absent, or a number.
NoArg == [type |-> "undefined", val |-> 0]
Num(n) == [type |-> "number", val |-> n]
\* An argument that is not a number (the stdio server does not validate types).
Str == [type |-> "string", val |-> 0]

PollIntervalMs_AnyNumber(poll_interval_seconds) ==
    IF poll_interval_seconds.type = "number"
    THEN poll_interval_seconds.val * 1000
    ELSE DefaultPollIntervalMs

PollIntervalMs(poll_interval_seconds) ==
    IF poll_interval_seconds.type = "number" /\ poll_interval_seconds.val > 0
    THEN poll_interval_seconds.val * 1000
    ELSE DefaultPollIntervalMs

TimeoutMs_AnyNumber(timeout_seconds) ==
    IF timeout_seconds.type = "number"
    THEN timeout_seconds.val * 1000
    ELSE DefaultTimeoutMs

TimeoutMs(timeout_seconds) ==
    IF timeout_seconds.type = "number" /\ timeout_seconds.val > 0
    THEN timeout_seconds.val * 1000
    ELSE DefaultTimeoutMs

\* {poll_interval_seconds, timeout_seconds} of a call.
WaitArgs(p, t) == [poll_interval_seconds |-> p, timeout_seconds |-> t]

PollArgs ==
    { WaitArgs(NoArg, NoArg), WaitArgs(Num(1), Num(2)), WaitArgs(Num(2), Num(3)),
      WaitArgs(Num(0), Num(2)), WaitArgs(Num(-1), Num(0)) }

\* Arguments only the stdio server hands to its handler.
UntypedArgs == { WaitArgs(Str, Str) }

ShortArgs == { WaitArgs(Num(1), Num(2)) }

\* Status strings the upstream may report, and String.prototype.toLowerCase
\* on them.
Statuses ==
    { "completed", "Succeeded", "finished", "failed", "ERROR", "errored",
      "cancelled", "queued", "processing", "" }

toLowerCase(s) ==
    CASE s = "Succeeded" -> "succeeded"
      [] s = "ERROR" -> "error"
      [] OTHER -> s

\* A job of a status response: results and record_ids are the lengths of the
\* two lists (0 when the list is absent or empty).
NoJob == [id |-> "", status |-> "", results |-> 0, record_ids |-> 0]
Jobs == [id : {"j1"}, status : Statuses, results : {0, 1}, record_ids : {0, 1}]

\* What client.getCompanyEnrichmentResult gives back: a success envelope with
\* a job, an error envelope, or a thrown error.
Response(kind, job) == [kind |-> kind, job |-> job]
StatusResponses ==
    {Response("error", NoJob), Response("threw", NoJob)}
    \cup {Response("job", j) : j \in Jobs}

ShortResponses ==
    { Response("threw", NoJob),
      Response("job", [id |-> "j1", status |-> "processing", results |-> 0,
                       record_ids |-> 0]),
      Response("job", [id |-> "j1", status |-> "completed", results |-> 1,
                       record_ids |-> 1]),
      Response("job", [id |-> "j1", status |-> "completed", results |-> 0,
                       record_ids |-> 1]) }

\* What client.startCompanyEnrichment gives back: a job with its id (possibly
\* the empty string, when the upstream body names none) and its status, an
\* error envelope, a thrown error.
StartResponses ==
    { [kind |-> "ok", jobId |-> "j1", status |-> "processing"],
      [kind |-> "ok", jobId |-> "j1", status |-> "completed"],
      [kind |-> "ok", jobId |-> "", status |-> "processing"],
      [kind |-> "error", jobId |-> "", status |-> ""],
      [kind |-> "threw", jobId |-> "", status |-> ""] }

\* What client.getCompany gives back for one record id.
CompanyResponses == {"company", "nocompany", "threw"}

\* Time an upstream call takes, and time a timer fires late (milliseconds).
Durations == {0, 1000}
Lateness == {0, 1000}

isCompleted(job) ==
    LET status == toLowerCase(job.status) IN
    status = "completed" \/ status = "succeeded" \/ status = "finished"
        \/ job.results > 0

isFailed_Never(job) == FALSE

isFailed(job) ==
    LET status == toLowerCase(job.status) IN
    status = "failed" \/ status = "error" \/ status = "errored" \/ status = "cancelled"

\* !startResponse.success: the start call gave back an error envelope.
StartRejected_Never(startResponse) == FALSE

StartRejected(startResponse) == startResponse.kind = "error"

\* The condition of the polling loop, evaluated at time t.
LoopContinues_Always(t, p) == TRUE

LoopContinues_Inclusive(t, p) == t - p.startedAt <= p.timeoutMs

LoopContinues_OneSleepShort(t, p) == t - p.startedAt + p.pollIntervalMs < p.timeoutMs

LoopContinues(t, p) == t - p.startedAt < p.timeoutMs

ensureClientConfigured_PrefersFallback(c, envKey) ==
    IF Truthy(envKey)
    THEN [client |-> DataMergeClient(c, envKey, Undefined), threw |-> FALSE]
    ELSE IF c # NoClient THEN [client |-> c, threw |-> FALSE]
    ELSE [client |-> NoClient, threw |-> TRUE]

\* ensureClientConfigured() of the stdio server on its single client.
ensureClientConfigured(c, envKey) ==
    IF c # NoClient THEN [client |-> c, threw |-> FALSE]
    ELSE IF Truthy(envKey)
    THEN [client |-> DataMergeClient(NoClient, envKey, Undefined), threw |-> FALSE]
    ELSE [client |-> NoClient, threw |-> TRUE]

\* The session the waiting tool call belongs to (extra.sessionId).
PollSid == 1

IdlePoll ==
    [pc |-> "idle", variant |-> "none", args |-> WaitArgs(NoArg, NoArg),
     client |-> NoClient, pollIntervalMs |-> 0, timeoutMs |-> 0,
     startResp |-> "none", startStatus |-> "", jobId |-> "", startCallAt |-> 0,
     startedAt |-> 0,
     sleeps |-> 0, fetches |-> 0, gets |-> 0, job |-> NoJob, pending |-> 0,
     companies |-> 0, kind |-> "none", isError |-> FALSE, outJobId |-> "",
     calledWith |-> NoClient]

PollClient_LooksUpAgain(p, st) ==
    IF p.variant = "http" THEN st.clients[PollSid] ELSE p.client

\* The client an upstream call of the waiting handler goes through: the
\* const the handler bound when it began.
PollClient(p, st) == p.client

(* ------------------------- DataMergeClient ----------------------------- *)

\* JSON values of a record's fields are strings or null; a key the object
\* does not have reads as undefined.
Absent == "<undefined>"
JNull == "<null>"

JTruthy(v) == v \notin {Absent, JNull, ""}
\* a || b
Or(a, b) == IF JTruthy(a) THEN a ELSE b
\* a ?? b
Nc(a, b) == IF a \in {Absent, JNull} THEN b ELSE a

\* The keys mapCompanyRecord reads, and one it does not know.
RecordKeys ==
    { "record_id", "id", "datamerge_id", "display_name", "legal_name", "name",
      "domain", "website_url", "country_code", "global_ultimate", "parent_id",
      "global_ultimate_id", "ultimate_parent_id", "address1", "national_id",
      "status", "extra" }

\* Raw upstream records: every key may be missing.
RawRecords ==
    [ record_id : {Absent, "rec1"}, id : {Absent, "r1"}, datamerge_id : {Absent, "d1"},
      display_name : {Absent}, legal_name : {Absent, "Acme Inc", ""},
      name : {Absent, "N"}, domain : {Absent, "acme.com", JNull},
      website_url : {Absent}, country_code : {Absent}, global_ultimate : {Absent},
      parent_id : {Absent}, global_ultimate_id : {Absent, "g1"},
      ultimate_parent_id : {Absent, "u1"}, address1 : {Absent},
      national_id : {Absent, "n1"},
      status : {Absent, "not_found", "no_query_match", "success", "pending"},
      extra : {Absent, "e"} ]

EmptyObject == [k \in RecordKeys |-> Absent]

\* {...base, ...spread}
ObjectSpread_BaseWins(base, spread) ==
    [k \in RecordKeys |-> IF base[k] # Absent THEN base[k] ELSE spread[k]]

ObjectSpread(base, spread) ==
    [k \in RecordKeys |-> IF spread[k] # Absent THEN spread[k] ELSE base[k]]

hasSubstantialData_Always(raw) == TRUE

hasSubstantialData(raw) ==
    JTruthy(Or(Or(Or(Or(raw.legal_name, raw.display_name), raw.domain), raw.address1),
               raw.national_id))

mapCompanyRecord(raw) ==
    LET id == IF Or(Or(raw.record_id, raw.id), raw.datamerge_id) \notin {Absent, JNull}
              THEN Nc(Nc(raw.record_id, raw.id), raw.datamerge_id)
              ELSE ""
        name == Nc(Or(Or(Or(Or(raw.display_name, raw.legal_name), raw.name), raw.domain),
                      "Unknown"), "Unknown")
        base == [EmptyObject EXCEPT
                   !.id = id,
                   !.name = name,
                   !.domain = Nc(raw.domain, JNull),
                   !.website_url = Nc(raw.website_url, JNull),
                   !.country_code = Nc(raw.country_code, JNull),
                   !.global_ultimate = Nc(raw.global_ultimate, JNull),
                   !.parent_id = Nc(raw.parent_id, JNull),
                   !.ultimate_parent_id =
                       Nc(Nc(raw.global_ultimate_id, raw.ultimate_parent_id), JNull)]
        spread == IF hasSubstantialData(raw)
                     /\ raw.status \in {"not_found", "no_query_match"}
                  THEN [raw EXCEPT !.status = "success"]
                  ELSE raw
    IN ObjectSpread(base, spread)

NoRec == [raw |-> EmptyObject, out |-> EmptyObject, mapped |-> FALSE]

(* ------------------------ DataMergeClient calls ------------------------ *)

\* What the upstream did with a request: the HTTP outcome, the kind of body
\* (a JSON object, one with an error key, null, none) and the success flag of
\* an object body.
Outcome(kind, data, success) == [kind |-> kind, data |-> data, success |-> success]

UpstreamOutcomes ==
    {Outcome("2xx", "object", f) : f \in {Absent, "true", "false"}}
    \cup {Outcome("2xx", "error_key", Absent), Outcome("2xx", "null", Absent),
          Outcome("non2xx", "object", Absent), Outcome("non2xx", "none", Absent),
          Outcome("network", "none", Absent), Outcome("timeout", "none", Absent)}

NoOutcome == Outcome("none", "none", Absent)

\* The argument of a call: the keys the schemas look at.
NoArgs ==
    [domain |-> Absent, domains |-> Absent, company_name |-> Absent,
     company_id |-> Absent, datamerge_id |-> Absent, record_id |-> Absent,
     add_to_list |-> Absent, job_id |-> Absent]

EnrichRequests ==
    {[NoArgs EXCEPT !.domain = d, !.company_name = n, !.domains = ds] :
        d \in {Absent, "", "example.com"}, n \in {Absent, "", "Example Inc"},
        ds \in {Absent, "[]", "[example.com]"}}

GetParams ==
    {[NoArgs EXCEPT !.company_id = c, !.domain = d, !.datamerge_id = m,
                    !.record_id = r, !.add_to_list = l] :
        c \in {Absent, "cmp_123"}, d \in {Absent, "example.com"},
        m \in {Absent, "dm_1"}, r \in {Absent, "rec_1"}, l \in {Absent, "list"}}

JobIds == {[NoArgs EXCEPT !.job_id = j] : j \in {"", "j1"}}

Methods ==
    {"startCompanyEnrichment", "getCompanyEnrichmentResult", "getCompany",
     "removeListItem", "deleteList", "listLists", "getCreditsBalance", "healthCheck"}

ArgsOf(method) ==
    CASE method = "startCompanyEnrichment" -> EnrichRequests
      [] method = "getCompany" -> GetParams
      [] method = "getCompanyEnrichmentResult" -> JobIds
      [] OTHER -> {NoArgs}

\* CompanyEnrichRequestV1Schema.safeParse(request).success
CompanyEnrichRequestV1Schema(data) ==
    JTruthy(data.domain) \/ data.domains = "[example.com]" \/ JTruthy(data.company_name)

\* CompanyGetParamsV1Schema.safeParse(params).success, as first declared
CompanyGetParamsV1SchemaOld(data) ==
    JTruthy(data.company_id) \/ JTruthy(data.domain) \/ JTruthy(data.company_name)

\* CompanyGetParamsV1Schema.safeParse(params).success, as the client uses it
CompanyGetParamsV1Schema(data) ==
    /\ JTruthy(data.datamerge_id) # JTruthy(data.record_id)
    /\ ~JTruthy(data.add_to_list) \/ JTruthy(data.datamerge_id)

\* What a call gives its caller: an envelope, a boolean, or a thrown error;
\* sent tells whether a request went upstream.
Envelope(success, error, payload) ==
    [threw |-> FALSE, success |-> success, error |-> error, payload |-> payload,
     sent |-> TRUE]
Thrown(error, sent) ==
    [threw |-> TRUE, success |-> Absent, error |-> error, payload |-> FALSE,
     sent |-> sent]
NoResult ==
    [threw |-> FALSE, success |-> Absent, error |-> Absent, payload |-> FALSE,
     sent |-> FALSE]

\* The response interceptor: a failed request is thrown on, with the response
\* body as message when there is one.
Interceptor(o) ==
    IF o.kind = "2xx" THEN NoResult
    ELSE Thrown(IF o.data # "none" THEN "API Error: <body>" ELSE "<axios message>", TRUE)

\* mapEnrichResponse and mapStatusResponse
mapEnrichResponse(o) ==
    IF o.data = "null"
    THEN Envelope("false", "Unexpected response from DataMerge", FALSE)
    ELSE IF o.data = "error_key" THEN Envelope("false", "<String(raw.error)>", FALSE)
    ELSE Envelope("true", Absent, TRUE)

mapCompanyGetResponse(o) ==
    IF o.data = "null"
    THEN Envelope("false", "Unexpected response from DataMerge", FALSE)
    ELSE IF o.data = "error_key" THEN Envelope("false", "<String(raw.error)>", FALSE)
    ELSE Envelope(IF o.success = "true" THEN "true" ELSE "false", Absent, TRUE)

\* listLists and getCreditsBalance: the request and the mapping are in a
\* try block whose catch returns an error envelope.
CaughtCall(o) ==
    IF o.kind # "2xx"
    THEN Envelope("false", Interceptor(o).error, FALSE)
    ELSE IF o.data = "null"
    THEN Envelope("false", "<TypeError message>", FALSE)
    ELSE IF o.data = "error_key" THEN Envelope("false", "<String(data.error)>", FALSE)
    ELSE Envelope("true", Absent, TRUE)

healthCheck_Rethrows(o) ==
    IF o.kind = "2xx" THEN Envelope("true", Absent, FALSE) ELSE Interceptor(o)

\* healthCheck: true when the probe request succeeded, false when it threw.
healthCheck(o) ==
    IF o.kind = "2xx" THEN Envelope("true", Absent, FALSE)
    ELSE Envelope("false", Absent, FALSE)

\* A method of DataMergeClient called with args when the upstream answers o.
ClientCall(method, args, o) ==
    CASE method = "startCompanyEnrichment" ->
            IF ~CompanyEnrichRequestV1Schema(args) THEN Thrown("<ZodError>", FALSE)
            ELSE IF o.kind # "2xx" THEN Interceptor(o)
            ELSE mapEnrichResponse(o)
      [] method = "getCompanyEnrichmentResult" ->
            IF ~JTruthy(args.job_id) THEN Thrown("job_id is required", FALSE)
            ELSE IF o.kind # "2xx" THEN Interceptor(o)
            ELSE mapEnrichResponse(o)
      [] method = "getCompany" ->
            IF ~CompanyGetParamsV1Schema(args) THEN Thrown("<ZodError>", FALSE)
            ELSE IF o.kind # "2xx" THEN Interceptor(o)
            ELSE mapCompanyGetResponse(o)
      [] method \in {"removeListItem", "deleteList"} ->
            IF o.kind # "2xx" THEN Interceptor(o) ELSE Envelope("true", Absent, FALSE)
      [] method \in {"listLists", "getCreditsBalance"} -> CaughtCall(o)
      [] OTHER -> healthCheck(o)

NoApiCall ==
    [method |-> "none", args |-> NoArgs, outcome |-> NoOutcome, done |-> FALSE,
     result |-> NoResult]

(* ----------------------- DataMergeClient config ------------------------ *)

\* Number of objects the caller and the client allocate.
MaxObjects == 4

Addrs == 1..MaxObjects

\* A DataMergeConfig object; NoObj where nothing is allocated.
Config(apiKey, baseUrl) == [apiKey |-> apiKey, baseUrl |-> baseUrl]
NoObj == Config(Undefined, Undefined)

\* The values the caller writes into an object it holds.
WrittenKeys == {KeyA, <<"x">>}

\* Which object the caller passed to the constructor (arg), which one the
\* client keeps (config), which ones getConfig returned (got), the first free
\* address (next), what the constructor was given (given) and the
\* Authorization header of the last request (authorization).
NoObjs ==
    [heap |-> [a \in Addrs |-> NoObj], arg |-> 0, config |-> 0, got |-> {},
     next |-> 1, given |-> NoObj, authorization |-> Undefined]

\* new DataMergeClient(config): DataMergeConfigSchema.parse builds a new
\* object, which the client keeps.
Construct(key, baseUrl) ==
    [heap |-> [a \in Addrs |-> IF a \in {1, 2} THEN Config(key, baseUrl) ELSE NoObj],
     arg |-> 1, config |-> 2, got |-> {}, next |-> 3,
     given |-> Config(key, baseUrl), authorization |-> Undefined]

getConfig_ReturnsConfig(o) == [o EXCEPT !.got = @ \cup {o.config}]

\* getConfig(): { ...this.config }, a new object with the same entries.
getConfig(o) ==
    [o EXCEPT !.heap[o.next] = o.heap[o.config],
              !.got = @ \cup {o.next},
              !.next = @ + 1]

\* The request interceptor: Authorization is `Token ${this.config.apiKey}`.
RequestInterceptor(o) ==
    [o EXCEPT !.authorization = TokenPrefix \o o.heap[o.config].apiKey]

(* --------------------------- tool dispatch ----------------------------- *)

\* A tools/call request: the tool name, configure_datamerge's arguments, and
\* whether the arguments pass the client method's schema.
ToolCall(name, apiKey, baseUrl, valid) ==
    [name |-> name, apiKey |-> apiKey, baseUrl |-> baseUrl, valid |-> valid]

RegisteredCalls ==
    { ToolCall("configure_datamerge", Undefined, Undefined, TRUE),
      ToolCall("configure_datamerge", <<>>, Undefined, TRUE),
      ToolCall("configure_datamerge", KeyC, Undefined, TRUE),
      ToolCall("configure_datamerge", KeyC, BadUrl, TRUE),
      ToolCall("get_company", Undefined, Undefined, TRUE),
      ToolCall("get_company", Undefined, Undefined, FALSE),
      ToolCall("health_check", Undefined, Undefined, TRUE) }

\* The stdio server switches on the name itself, so any name reaches it.
StdioCalls == RegisteredCalls \cup {ToolCall("no_such_tool", Undefined, Undefined, TRUE)}

\* What the upstream does with the request of a tool: a 2xx body, a 2xx body
\* that is an error envelope, or a non-2xx answer (the client throws).
Upstreams == {"ok", "error", "non2xx"}

\* How a handler ends: a result ("ok" or "isError"), or a thrown error.
Ended(result) == [result |-> result, threw |-> FALSE]
Threw == [result |-> "none", threw |-> TRUE]

\* client.getCompany(args) and the handler code after it.
GetCompanyOutcome(call, up) ==
    IF ~call.valid THEN Threw
    ELSE IF up = "non2xx" THEN Threw
    ELSE IF up = "error" THEN Ended("isError")
    ELSE Ended("ok")

\* handleConfigureDataMerge(args) of the stdio server on its client c.
handleConfigureDataMerge(c, call, envKey) ==
    LET apiKey == Coalesce(call.apiKey, envKey) IN
    IF ~Truthy(apiKey) THEN [client |-> c] @@ Threw
    ELSE IF ~DataMergeConfigSchemaOk(apiKey, call.baseUrl) THEN [client |-> c] @@ Threw
    ELSE [client |-> DataMergeClient(c, apiKey, call.baseUrl)] @@ Ended("ok")

\* The switch of the stdio server's CallTool handler: the handler of the
\* named tool, run on client c.
StdioHandler(c, call, up, envKey) ==
    IF call.name = "configure_datamerge" THEN handleConfigureDataMerge(c, call, envKey)
    ELSE IF call.name \in {"get_company", "health_check"}
    THEN LET r == ensureClientConfigured(c, envKey) IN
         IF r.threw THEN [client |-> c] @@ Threw
         ELSE IF call.name = "health_check" THEN [client |-> r.client] @@ Ended("ok")
         ELSE [client |-> r.client] @@ GetCompanyOutcome(call, up)
    ELSE [client |-> c] @@ Threw

\* try { ... } catch (error) { return {content, isError: true} } around it.
TryCatch_Rethrows(r) == IF r.threw THEN "escaped" ELSE r.result

TryCatch(r) == IF r.threw THEN "isError" ELSE r.result

\* The handler registered for the named tool on the HTTP server, called with
\* extra.sessionId = sid on store st.
HttpHandler(st, sid, call, up, envKey) ==
    IF call.name = "configure_datamerge"
    THEN LET r == configure_datamerge(st, sid, call.apiKey, call.baseUrl, envKey) IN
         [st |-> r.st] @@ (IF r.threw THEN Threw ELSE Ended("ok"))
    ELSE LET r == getClientForSession(st, sid, envKey) IN
         IF r.threw THEN [st |-> r.st] @@ Threw
         ELSE IF call.name = "health_check" THEN [st |-> r.st] @@ Ended("ok")
         ELSE [st |-> r.st] @@ GetCompanyOutcome(call, up)

\* What the MCP server library answers for a registered handler: its result,
\* or an error result made of the message of the error it threw.
McpServerToolResult(r) == IF r.threw THEN "isError" ELSE r.result

Dispatch(server, call, up, resolvable, result) ==
    [server |-> server, call |-> call, up |-> up, resolvable |-> resolvable,
     result |-> result]

NoDispatch == Dispatch("none", ToolCall("none", Undefined, Undefined, TRUE), "ok", FALSE, "none")

(* ----------------------- the HTTP router's steps ----------------------- *)

Init ==
    /\ transports = {}
    /\ clients = [s \in Sids |-> NoClient]
    /\ apiKeys = [s \in Sids |-> Undefined]
    /\ nextSid = 1
    /\ env \in EnvValues
    /\ inflight = EmptyBag
    /\ last = NoEvent
    /\ initAuth = [s \in Sids |-> Undefined]
    /\ terminated = {}
    /\ poll = IdlePoll
    /\ now = 0
    /\ stdioClient = NoClient
    /\ disp = NoDispatch
    /\ rec = NoRec
    /\ log = {}
    /\ apiCall = NoApiCall
    /\ objs = NoObjs

\* Which branch of app.post('/') a request takes.
PostBranch(tr, sessionId, body) ==
    IF sessionId # NoSid /\ sessionId \in tr THEN "existing"
    ELSE IF sessionId = NoSid /\ isInitializeRequest(body) THEN "initialize"
    ELSE "invalid"

\* POST with a registered session id: the header is read, then the message is
\* handed to the session's transport; a tool call waits there for its handler.
PostExisting(sessionId, authHeader, body) ==
    /\ PostBranch(transports, sessionId, body) = "existing"
    /\ SetStore(tryConfigureClientFromAuthHeader(Store, authHeader, sessionId))
    /\ inflight' = IF body.method = "tools/call"
                   THEN inflight (+) SetToBag({[sid |-> sessionId, call |-> body.call]})
                   ELSE inflight
    /\ BagCardinality(inflight') <= MaxInflight
    /\ last' = Event("post", sessionId, 200, "transport", 0, NoCall, "none", NoClient)
    /\ UNCHANGED <<transports, nextSid, env, initAuth, terminated>>

\* POST without a session id carrying an initialize request: a transport is
\* created, the generated session id is registered by onsessioninitialized and
\* the header is read for it.
PostInitialize(authHeader, body) ==
    /\ PostBranch(transports, NoSid, body) = "initialize"
    /\ nextSid <= MaxSessions
    /\ transports' = transports \cup {nextSid}
    /\ SetStore(tryConfigureClientFromAuthHeader(Store, authHeader, nextSid))
    /\ nextSid' = nextSid + 1
    /\ last' = Event("post_init", nextSid, 200, "transport", 0, NoCall, "none", NoClient)
    /\ initAuth' = [initAuth EXCEPT ![nextSid] =
                        IF authHeader \in KeyHeaders THEN authHeader ELSE Undefined]
    /\ UNCHANGED <<env, inflight, terminated>>

\* Any other POST: 400 with a JSON-RPC error object.
PostInvalid(sessionId, body) ==
    /\ PostBranch(transports, sessionId, body) = "invalid"
    /\ last' = Event("post", sessionId, 400, "jsonrpc", -32000, NoCall, "none", NoClient)
    /\ UNCHANGED <<transports, clients, apiKeys, nextSid, env, inflight, initAuth, terminated>>

\* Whether app.get('/') and app.delete('/') hand the request to a transport.
GetBranch(tr, sessionId) ==
    IF sessionId = NoSid \/ sessionId \notin tr THEN "invalid" ELSE "existing"

DeleteBranch(tr, sessionId) ==
    IF sessionId = NoSid \/ sessionId \notin tr THEN "invalid" ELSE "existing"

\* GET (event stream): 400 with a text body, or the header is read and the
\* request handed to the session's transport.
Get(sessionId, authHeader) ==
    IF GetBranch(transports, sessionId) = "invalid"
    THEN /\ last' = Event("get", sessionId, 400, "text", 0, NoCall, "none", NoClient)
         /\ UNCHANGED <<transports, clients, apiKeys, nextSid, env, inflight, initAuth,
                        terminated>>
    ELSE /\ SetStore(tryConfigureClientFromAuthHeader(Store, authHeader, sessionId))
         /\ last' = Event("get", sessionId, 200, "transport", 0, NoCall, "none", NoClient)
         /\ UNCHANGED <<transports, nextSid, env, inflight, initAuth, terminated>>

\* The transport of session sid closes: its onclose callback runs.
CloseTransport(sid) ==
    LET r == onclose(transports, Store, sid) IN
    /\ transports' = r.transports
    /\ SetStore(r.st)
    /\ terminated' = terminated \cup {sid}
    /\ initAuth' = [initAuth EXCEPT ![sid] = Undefined]

\* DELETE (terminate session): 400 with a text body, or the request is handed
\* to the session's transport, which closes itself.
Delete(sessionId) ==
    IF DeleteBranch(transports, sessionId) = "invalid"
    THEN /\ last' = Event("delete", sessionId, 400, "text", 0, NoCall, "none", NoClient)
         /\ UNCHANGED <<transports, clients, apiKeys, nextSid, env, inflight, initAuth,
                        terminated>>
    ELSE /\ CloseTransport(sessionId)
         /\ last' = Event("delete", sessionId, 200, "transport", 0, NoCall, "none", NoClient)
         /\ UNCHANGED <<nextSid, env, inflight>>

\* The connection of an allocated session closes (or closes again).
Close(sid) ==
    /\ sid < nextSid
    /\ CloseTransport(sid)
    /\ last' = Event("close", sid, 0, "none", 0, NoCall, "none", NoClient)
    /\ UNCHANGED <<nextSid, env, inflight>>

\* What a tool handler does when the MCP server calls it with extra.sessionId.
ToolHandler(st, sid, call, envKey) ==
    IF call.tool = "configure_datamerge"
    THEN configure_datamerge(st, sid, call.apiKey, call.baseUrl, envKey)
    ELSE getClientForSession(st, sid, envKey)

\* The MCP server calls the handler of a tool invocation it was handed. The
\* handler is a callback of its own (registerTool); the route that accepted the
\* message awaits transport.handleRequest, so other requests and a close of the
\* connection can be served before the handler runs.
RunTool(inv) ==
    /\ BagIn(inv, inflight)
    /\ LET r == ToolHandler(Store, inv.sid, inv.call, env) IN
         /\ SetStore(r.st)
         /\ last' = Event("tool", inv.sid, 0, "none", 0, inv.call,
                          IF r.threw THEN "isError" ELSE "ok", r.client)
    /\ inflight' = inflight (-) SetToBag({inv})
    /\ initAuth' = IF inv.call.tool = "configure_datamerge"
                   THEN [initAuth EXCEPT ![inv.sid] = Undefined]
                   ELSE initAuth
    /\ UNCHANGED <<transports, nextSid, env, terminated>>

Next ==
    \/ \E sid \in Sids, h \in AuthHeaders, b \in Bodies :
          PostExisting(sid, h, b) /\ UNCHANGED pollVars
    \/ \E h \in AuthHeaders, b \in Bodies : PostInitialize(h, b) /\ UNCHANGED pollVars
    \/ \E sid \in Sids \cup {NoSid}, b \in Bodies :
          PostInvalid(sid, b) /\ UNCHANGED pollVars
    \/ \E sid \in Sids \cup {NoSid}, h \in AuthHeaders : Get(sid, h) /\ UNCHANGED pollVars
    \/ \E sid \in Sids \cup {NoSid} : Delete(sid) /\ UNCHANGED pollVars
    \/ \E sid \in Sids : Close(sid) /\ UNCHANGED pollVars
    \/ \E inv \in BagToSet(inflight) : RunTool(inv) /\ UNCHANGED pollVars

Spec == Init /\ [][Next]_vars

\* GET /health: answers { status: 'ok' } and reads neither header nor session.
Health ==
    /\ last' = Event("health", NoSid, 200, "ok", 0, NoCall, "none", NoClient)
    /\ UNCHANGED <<transports, clients, apiKeys, nextSid, env, inflight,
                   initAuth, terminated>>

\* The router when no request carries an Authorization header.
NextNoHeader ==
    \/ Health /\ UNCHANGED pollVars
    \/ \E sid \in Sids, b \in Bodies :
          PostExisting(sid, Undefined, b) /\ UNCHANGED pollVars
    \/ \E b \in Bodies : PostInitialize(Undefined, b) /\ UNCHANGED pollVars
    \/ \E sid \in Sids \cup {NoSid}, b \in Bodies :
          PostInvalid(sid, b) /\ UNCHANGED pollVars
    \/ \E sid \in Sids \cup {NoSid} : Get(sid, Undefined) /\ UNCHANGED pollVars
    \/ \E sid \in Sids \cup {NoSid} : Delete(sid) /\ UNCHANGED pollVars
    \/ \E sid \in Sids : Close(sid) /\ UNCHANGED pollVars
    \/ \E inv \in BagToSet(inflight) : RunTool(inv) /\ UNCHANGED pollVars

SpecNoHeader == Init /\ [][NextNoHeader]_vars

(* -------------------- sessions with keys of their own ------------------- *)

\* The key the user of session s sends and the one they rotate to; no two
\* sessions share a key and none is the fallback key.
SessionKey(s) == <<"k">> \o [i \in 1..s |-> "i"]
RotatedKey(s) == SessionKey(s) \o <<"r">>
SessionKeys(s) == {SessionKey(s), RotatedKey(s)}

SessionHeaders(s) ==
    {Undefined, BearerPrefix \o SessionKey(s), TokenPrefix \o RotatedKey(s)}

SessionBodies(s) ==
    {[method |-> "initialize", call |-> NoCall],
     [method |-> "notifications/initialized", call |-> NoCall]}
    \cup [method : {"tools/call"},
          call : { [tool |-> "health_check", apiKey |-> Undefined, baseUrl |-> Undefined],
                   [tool |-> "configure_datamerge", apiKey |-> Undefined,
                    baseUrl |-> Undefined],
                   [tool |-> "configure_datamerge", apiKey |-> SessionKey(s),
                    baseUrl |-> Undefined] }]

\* The router when every session is driven with its own key.
NextIso ==
    \/ \E sid \in Sids : \E h \in SessionHeaders(sid), b \in SessionBodies(sid) :
          PostExisting(sid, h, b) /\ UNCHANGED pollVars
    \/ \E h \in SessionHeaders(nextSid), b \in SessionBodies(nextSid) :
          PostInitialize(h, b) /\ UNCHANGED pollVars
    \/ \E sid \in Sids : \E h \in SessionHeaders(sid) :
          Get(sid, h) /\ UNCHANGED pollVars
    \/ \E sid \in Sids : Delete(sid) /\ UNCHANGED pollVars
    \/ \E sid \in Sids : Close(sid) /\ UNCHANGED pollVars
    \/ \E inv \in BagToSet(inflight) : RunTool(inv) /\ UNCHANGED pollVars

SpecIso == Init /\ [][NextIso]_vars

(* --------------------------- diagnostic log ---------------------------- *)

\* How much of the Authorization header the log lines take.
AuthHeaderPrefixLen == 10
AuthHeaderValueLen == 30

\* String.prototype.substring(0, n)
SubstringTo(s, n) == SubSeq(s, 1, IF n < Len(s) THEN n ELSE Len(s))

None == <<"n", "o", "n", "e">>

\* A key as long as a real one, and the headers the logging is driven with;
\* no character of a key occurs in a scheme word.
LongKey == [i \in 1..32 |-> IF i % 2 = 0 THEN "8" ELSE "9"]

LogHeaders ==
    { Undefined,
      BearerPrefix \o KeyB,
      TokenPrefix \o KeyB,
      TokenPrefix \o LongKey,
      TokenPrefix \o <<" ">>,
      BasicPrefix \o KeyB }

LogEntry(site, text) == [site |-> site, text |-> text]

\* What app.post('/') writes about the header before it routes the request.
postLog(authHeader) ==
    IF Truthy(authHeader)
    THEN {LogEntry("post.authorization", SubstringTo(authHeader, AuthHeaderValueLen))}
    ELSE {}

\* What tryConfigureClientFromAuthHeader writes about the header.
tryConfigureLog(authHeader) ==
    LET prefix == IF authHeader = Undefined THEN Undefined
                  ELSE SubstringTo(authHeader, AuthHeaderPrefixLen)
        apiKey == ExtractApiKey(authHeader)
    IN  {LogEntry("tryConfigure.authHeaderPrefix",
                  IF Truthy(prefix) THEN prefix ELSE None)}
        \cup (IF ~(Truthy(apiKey) /\ Truthy(Trim(apiKey))) /\ Truthy(authHeader)
              THEN {LogEntry("tryConfigure.unrecognized",
                             SubstringTo(authHeader, AuthHeaderValueLen))}
              ELSE {})

LogBodies ==
    {[method |-> "initialize", call |-> NoCall],
     [method |-> "notifications/initialized", call |-> NoCall]}

\* app.post('/') with its log lines, for requests that are not tool calls.
NextLog ==
    \/ \E sid \in Sids, h \in LogHeaders, b \in LogBodies :
          /\ PostExisting(sid, h, b)
          /\ log' = log \cup postLog(h) \cup tryConfigureLog(h)
          /\ UNCHANGED <<poll, now, stdioClient, disp, rec, apiCall, objs>>
    \/ \E h \in LogHeaders, b \in LogBodies :
          /\ PostInitialize(h, b)
          /\ log' = log \cup postLog(h) \cup tryConfigureLog(h)
          /\ UNCHANGED <<poll, now, stdioClient, disp, rec, apiCall, objs>>
    \/ \E sid \in Sids \cup {NoSid}, h \in LogHeaders, b \in LogBodies :
          /\ PostInvalid(sid, b)
          /\ log' = log \cup postLog(h)
          /\ UNCHANGED <<poll, now, stdioClient, disp, rec, apiCall, objs>>

SpecLog == Init /\ [][NextLog]_vars

(* -------------- start_company_enrichment_and_wait: steps -------------- *)

Return_RetriesFailedFetch(p, kind, isError) ==
    IF kind \in {"PollFailed", "PollThrew"} /\ p.jobId # ""
    THEN [p EXCEPT !.pc = "sleeping", !.sleeps = @ + 1]
    ELSE [p EXCEPT !.pc = "done", !.kind = kind, !.isError = isError]

\* The handler returns (or throws: the stdio server's catch, and the MCP
\* server around a registered handler, turn a thrown error into an error result).
Return(p, kind, isError) == [p EXCEPT !.pc = "done", !.kind = kind, !.isError = isError]

\* A return whose text or payload names the job id.
ReturnJob(p, kind, isError, id) == [Return(p, kind, isError) EXCEPT !.outJobId = id]

\* The top of the while loop at time t: sleep again, or give up.
LoopTop_NoSleep(p, t) ==
    IF LoopContinues(t, p)
    THEN [p EXCEPT !.pc = "fetching", !.fetches = @ + 1, !.job = NoJob]
    ELSE ReturnJob(p, "TimedOut", FALSE, p.jobId)

LoopTop_TimeoutIsError(p, t) ==
    IF LoopContinues(t, p)
    THEN [p EXCEPT !.pc = "sleeping", !.sleeps = @ + 1]
    ELSE ReturnJob(p, "TimedOut", TRUE, p.jobId)

LoopTop(p, t) ==
    IF LoopContinues(t, p)
    THEN [p EXCEPT !.pc = "sleeping", !.sleeps = @ + 1]
    ELSE ReturnJob(p, "TimedOut", FALSE, p.jobId)

\* The handler starts: client lookup, arguments, the start call is issued.
PollBegin(variant, args) ==
    /\ poll.pc = "idle"
    /\ LET r == IF variant = "http"
                THEN getClientForSession(Store, PollSid, env)
                ELSE [st |-> Store] @@ ensureClientConfigured(stdioClient, env)
           p == [poll EXCEPT !.variant = variant, !.args = args, !.client = r.client]
       IN
         /\ SetStore(r.st)
         /\ stdioClient' = IF variant = "http" THEN stdioClient ELSE r.client
         /\ poll' = IF r.threw
                    THEN Return(p, "NotConfigured", TRUE)
                    ELSE [p EXCEPT
                            !.pc = "starting",
                            !.calledWith = PollClient(p, r.st),
                            !.pollIntervalMs = PollIntervalMs(args.poll_interval_seconds),
                            !.timeoutMs = TimeoutMs(args.timeout_seconds),
                            !.startCallAt = now]
    /\ UNCHANGED <<transports, nextSid, env, inflight, last, initAuth, terminated, now,
                   disp, rec, log, apiCall, objs>>

\* client.startCompanyEnrichment settles after d milliseconds.
PollStartReturns(resp, d) ==
    /\ poll.pc = "starting"
    /\ now' = now + d
    /\ LET p == [poll EXCEPT !.startResp = resp.kind, !.startStatus = resp.status] IN
       poll' = CASE resp.kind = "threw" -> Return(p, "StartThrew", TRUE)
                 [] StartRejected(resp) -> Return(p, "StartFailed", TRUE)
                 [] OTHER ->
                      LoopTop([p EXCEPT !.jobId = resp.jobId, !.startedAt = now'], now')
    /\ UNCHANGED <<transports, clients, apiKeys, nextSid, env, inflight, last, initAuth,
                   terminated, stdioClient, disp, rec, log, apiCall, objs>>

\* The sleep ends, late milliseconds after pollIntervalMs, and the status
\* fetch is issued; the client refuses an empty job id before any request.
PollWake(late) ==
    /\ poll.pc = "sleeping"
    /\ now' = now + poll.pollIntervalMs + late
    /\ LET p == [poll EXCEPT !.fetches = @ + 1, !.job = NoJob] IN
       poll' = IF poll.jobId = ""
               THEN Return(p, "PollThrew", TRUE)
               ELSE [p EXCEPT !.pc = "fetching", !.calledWith = PollClient(p, Store)]
    /\ UNCHANGED <<transports, clients, apiKeys, nextSid, env, inflight, last, initAuth,
                   terminated, stdioClient, disp, rec, log, apiCall, objs>>

\* client.getCompanyEnrichmentResult settles after d milliseconds and the
\* rest of the loop body runs, up to the next await or return.
PollFetchReturns(resp, d) ==
    /\ poll.pc = "fetching"
    /\ now' = now + d
    /\ poll' =
         CASE resp.kind = "threw" -> Return(poll, "PollThrew", TRUE)
           [] resp.kind = "error" -> Return(poll, "PollFailed", TRUE)
           [] OTHER ->
                LET job == resp.job
                    p == [poll EXCEPT !.job = job]
                IN
                IF isCompleted(job)
                THEN IF p.variant = "http" /\ job.record_ids > 0 /\ job.results = 0
                     THEN [p EXCEPT !.pc = "getting", !.pending = job.record_ids,
                                    !.gets = @ + 1,
                                    !.calledWith = PollClient(p, Store)]
                     ELSE ReturnJob([p EXCEPT !.companies = job.results], "Success",
                                    FALSE, job.id)
                ELSE IF isFailed(job)
                THEN ReturnJob(p, "Failure", TRUE, job.id)
                ELSE LoopTop(p, now')
    /\ UNCHANGED <<transports, clients, apiKeys, nextSid, env, inflight, last, initAuth,
                   terminated, stdioClient, disp, rec, log, apiCall, objs>>

\* client.getCompany for the next record id settles after d milliseconds.
PollGetCompanyReturns(resp, d) ==
    /\ poll.pc = "getting"
    /\ now' = now + d
    /\ poll' =
         IF resp = "threw"
         THEN Return(poll, "GetThrew", TRUE)
         ELSE LET p == [poll EXCEPT
                          !.pending = @ - 1,
                          !.companies = IF resp = "company" THEN @ + 1 ELSE @]
              IN IF p.pending = 0
                 THEN ReturnJob(p, "Success", FALSE, p.job.id)
                 ELSE [p EXCEPT !.gets = @ + 1, !.calledWith = PollClient(p, Store)]
    /\ UNCHANGED <<transports, clients, apiKeys, nextSid, env, inflight, last, initAuth,
                   terminated, stdioClient, disp, rec, log, apiCall, objs>>

\* The state after session PollSid was initialized by a request with header h.
InitPoll ==
    /\ env \in EnvValues
    /\ \E h \in {Undefined, TokenPrefix \o KeyA} :
         LET st == tryConfigureClientFromAuthHeader(
                       [clients |-> [s \in Sids |-> NoClient],
                        apiKeys |-> [s \in Sids |-> Undefined]], h, PollSid)
         IN /\ clients = st.clients
            /\ apiKeys = st.apiKeys
            /\ initAuth = [s \in Sids |-> IF s = PollSid /\ h \in KeyHeaders
                                          THEN h ELSE Undefined]
    /\ transports = {PollSid}
    /\ nextSid = PollSid + 1
    /\ inflight = EmptyBag
    /\ last = Event("post_init", PollSid, 200, "transport", 0, NoCall, "none", NoClient)
    /\ terminated = {}
    /\ poll = IdlePoll
    /\ now = 0
    /\ stdioClient = NoClient
    /\ disp = NoDispatch
    /\ rec = NoRec
    /\ log = {}
    /\ apiCall = NoApiCall
    /\ objs = NoObjs

\* The waiting tool call alone, on either server, with every upstream answer.
NextPoll ==
    \/ \E v \in {"http", "stdio"} :
          \E a \in PollArgs \cup (IF v = "stdio" THEN UntypedArgs ELSE {}) : PollBegin(v, a)
    \/ \E r \in StartResponses, d \in Durations : PollStartReturns(r, d)
    \/ \E late \in Lateness : PollWake(late)
    \/ \E r \in StatusResponses, d \in Durations : PollFetchReturns(r, d)
    \/ \E r \in CompanyResponses, d \in Durations : PollGetCompanyReturns(r, d)

SpecPoll == InitPoll /\ [][NextPoll]_vars

\* The awaits of the handler settle: the start call, a sleep (setTimeout), a
\* status fetch, a company fetch.
PollSettles ==
    \/ \E r \in StartResponses, d \in Durations : PollStartReturns(r, d)
    \/ \E late \in Lateness : PollWake(late)
    \/ \E r \in StatusResponses, d \in Durations : PollFetchReturns(r, d)
    \/ \E r \in CompanyResponses, d \in Durations : PollGetCompanyReturns(r, d)

\* The waiting tool call when every upstream call and every sleep of it
\* eventually completes.
SpecPollLive == SpecPoll /\ WF_vars(PollSettles)

\* The waiting tool call against an upstream that answers at once: only the
\* sleeps take time (a timer fires after its delay, or later).
NextInstant ==
    \/ \E v \in {"http", "stdio"} :
          \E a \in PollArgs \cup (IF v = "stdio" THEN UntypedArgs ELSE {}) : PollBegin(v, a)
    \/ \E r \in StartResponses : PollStartReturns(r, 0)
    \/ \E late \in Lateness : PollWake(late)
    \/ \E r \in StatusResponses : PollFetchReturns(r, 0)
    \/ \E r \in CompanyResponses : PollGetCompanyReturns(r, 0)

SpecInstant == InitPoll /\ [][NextInstant]_vars

\* Tool calls served on the session of a waiting call.
ConcBodies ==
    { [method |-> "tools/call",
       call |-> [tool |-> "health_check", apiKey |-> Undefined, baseUrl |-> Undefined]],
      [method |-> "tools/call",
       call |-> [tool |-> "configure_datamerge", apiKey |-> KeyC, baseUrl |-> GoodUrl]] }

\* The waiting tool call over HTTP, with other tool calls on its session and
\* the close of its connection in between its steps.
NextConc ==
    \/ \E a \in ShortArgs : PollBegin("http", a)
    \/ \E r \in StartResponses, d \in Durations : PollStartReturns(r, d)
    \/ \E late \in Lateness : PollWake(late)
    \/ \E r \in ShortResponses, d \in Durations : PollFetchReturns(r, d)
    \/ \E r \in CompanyResponses, d \in Durations : PollGetCompanyReturns(r, d)
    \/ \E b \in ConcBodies : PostExisting(PollSid, Undefined, b) /\ UNCHANGED pollVars
    \/ \E inv \in BagToSet(inflight) : RunTool(inv) /\ UNCHANGED pollVars
    \/ Close(PollSid) /\ UNCHANGED pollVars

SpecConc == InitPoll /\ [][NextConc]_vars

(* ------------------------ whole tool dispatches ------------------------ *)

\* The stdio server serves a tools/call request.
StdioCallTool(call, up) ==
    LET r == StdioHandler(stdioClient, call, up, env) IN
    /\ stdioClient' = r.client
    /\ disp' = Dispatch("stdio", call, up, stdioClient # NoClient \/ Truthy(env),
                        TryCatch(r))
    /\ UNCHANGED <<transports, clients, apiKeys, nextSid, env, inflight, last, initAuth,
                   terminated, poll, now, rec, log, apiCall, objs>>

\* The HTTP server serves a tools/call request of session sid, start to end.
HttpCallTool(sid, call, up) ==
    LET r == HttpHandler(Store, sid, call, up, env) IN
    /\ sid \in transports
    /\ SetStore(r.st)
    /\ disp' = Dispatch("http", call, up,
                        clients[sid] # NoClient \/ Truthy(apiKeys[sid]) \/ Truthy(env),
                        McpServerToolResult(r))
    /\ initAuth' = IF call.name = "configure_datamerge"
                   THEN [initAuth EXCEPT ![sid] = Undefined]
                   ELSE initAuth
    /\ UNCHANGED <<transports, nextSid, env, inflight, last, terminated, poll, now,
                   stdioClient, rec, log, apiCall, objs>>

NextDispatch ==
    \/ \E c \in StdioCalls, up \in Upstreams : StdioCallTool(c, up)
    \/ \E c \in RegisteredCalls, up \in Upstreams : HttpCallTool(PollSid, c, up)

SpecDispatch == InitPoll /\ [][NextDispatch]_vars

(* --------------------------- client calls ------------------------------ *)

InitApi ==
    /\ transports = {}
    /\ clients = [s \in Sids |-> NoClient]
    /\ apiKeys = [s \in Sids |-> Undefined]
    /\ nextSid = 1
    /\ env = Undefined
    /\ inflight = EmptyBag
    /\ last = NoEvent
    /\ initAuth = [s \in Sids |-> Undefined]
    /\ terminated = {}
    /\ poll = IdlePoll
    /\ now = 0
    /\ stdioClient = NoClient
    /\ disp = NoDispatch
    /\ rec = NoRec
    /\ log = {}
    /\ \E m \in Methods : \E a \in ArgsOf(m), o \in UpstreamOutcomes :
         apiCall = [NoApiCall EXCEPT !.method = m, !.args = a, !.outcome = o]
    /\ objs = NoObjs

\* The method is called and returns or throws.
CallClient ==
    /\ ~apiCall.done
    /\ apiCall' = [apiCall EXCEPT
                     !.result = ClientCall(apiCall.method, apiCall.args, apiCall.outcome),
                     !.done = TRUE]
    /\ UNCHANGED <<transports, clients, apiKeys, nextSid, env, inflight, last, initAuth,
                   terminated, poll, now, stdioClient, disp, rec, log, objs>>

NextApi == CallClient

SpecApi == InitApi /\ [][NextApi]_vars

(* --------------------------- client config ----------------------------- *)

InitConfig ==
    /\ transports = {}
    /\ clients = [s \in Sids |-> NoClient]
    /\ apiKeys = [s \in Sids |-> Undefined]
    /\ nextSid = 1
    /\ env = Undefined
    /\ inflight = EmptyBag
    /\ last = NoEvent
    /\ initAuth = [s \in Sids |-> Undefined]
    /\ terminated = {}
    /\ poll = IdlePoll
    /\ now = 0
    /\ stdioClient = NoClient
    /\ disp = NoDispatch
    /\ rec = NoRec
    /\ log = {}
    /\ apiCall = NoApiCall
    /\ \E key \in {KeyA, KeyC}, baseUrl \in {Undefined, GoodUrl} :
         objs = Construct(key, baseUrl)

\* The caller asks for the configuration.
GetConfig ==
    /\ objs.next <= MaxObjects
    /\ objs' = getConfig(objs)
    /\ UNCHANGED <<transports, clients, apiKeys, nextSid, env, inflight, last, initAuth,
                   terminated, poll, now, stdioClient, disp, rec, log, apiCall>>

\* The caller changes the key of an object it holds: one getConfig returned,
\* or the one it gave the constructor.
WriteObject(a, key) ==
    /\ a \in objs.got \cup {objs.arg}
    /\ objs' = [objs EXCEPT !.heap[a].apiKey = key]
    /\ UNCHANGED <<transports, clients, apiKeys, nextSid, env, inflight, last, initAuth,
                   terminated, poll, now, stdioClient, disp, rec, log, apiCall>>

\* The client sends a request upstream.
SendRequest ==
    /\ objs' = RequestInterceptor(objs)
    /\ UNCHANGED <<transports, clients, apiKeys, nextSid, env, inflight, last, initAuth,
                   terminated, poll, now, stdioClient, disp, rec, log, apiCall>>

NextConfig ==
    \/ GetConfig
    \/ \E a \in Addrs, key \in WrittenKeys : WriteObject(a, key)
    \/ SendRequest

SpecConfig == InitConfig /\ [][NextConfig]_vars

(* ------------------------ record normalization ------------------------ *)

InitRecord ==
    /\ transports = {}
    /\ clients = [s \in Sids |-> NoClient]
    /\ apiKeys = [s \in Sids |-> Undefined]
    /\ nextSid = 1
    /\ env = Undefined
    /\ inflight = EmptyBag
    /\ last = NoEvent
    /\ initAuth = [s \in Sids |-> Undefined]
    /\ terminated = {}
    /\ poll = IdlePoll
    /\ now = 0
    /\ stdioClient = NoClient
    /\ disp = NoDispatch
    /\ \E raw \in RawRecords : rec = [NoRec EXCEPT !.raw = raw]
    /\ log = {}
    /\ apiCall = NoApiCall
    /\ objs = NoObjs

\* A raw record of an upstream answer is normalized.
MapRecord ==
    /\ ~rec.mapped
    /\ rec' = [rec EXCEPT !.out = mapCompanyRecord(rec.raw), !.mapped = TRUE]
    /\ UNCHANGED <<transports, clients, apiKeys, nextSid, env, inflight, last, initAuth,
                   terminated, poll, now, stdioClient, disp, log, apiCall, objs>>

NextRecord == MapRecord

SpecRecord == InitRecord /\ [][NextRecord]_vars

(* ===================== claims on the HTTP router ====================== *)

HttpOps == {"post", "post_init", "get", "delete"}

\* The step just taken was a tool handler run.
ToolStep == last'.op = "tool" /\ inflight' # inflight

\* The step just taken was the handling of an HTTP request.
HttpStep == last'.op \in HttpOps /\ last' # last

\* C1: once the transport of session S has closed, S has no entry in the
\* transport map, the client map or the credential map, in any later state.
C1_ClosedSessionHasNoState ==
    \A s \in terminated :
        s \notin transports /\ clients[s] = NoClient /\ apiKeys[s] = Undefined

\* The credential the precedence rule selects: explicit, else remembered, else
\* the process-wide fallback, else none (Undefined).
Precedence(explicit, remembered, fallback) ==
    IF Truthy(explicit) THEN explicit
    ELSE IF Truthy(remembered) THEN remembered
    ELSE IF Truthy(fallback) THEN fallback
    ELSE Undefined

\* C3: a tool call (configure_datamerge with or without apiKey, or the lazy
\* lookup of any other tool) on a session with remembered credential A and
\* fallback B uses the explicit credential if supplied, else A, else B, and
\* fails as NotConfigured when there is none. (Calls with a malformed baseUrl
\* or an empty-string apiKey are left out: the claim is not about them.)
C3_CredentialPrecedence ==
    [][(ToolStep /\ last'.call.apiKey # <<>> /\ last'.call.baseUrl # BadUrl) =>
         LET want == Precedence(last'.call.apiKey, apiKeys[last'.sid], env) IN
         IF want = Undefined
         THEN last'.result = "isError"
         ELSE last'.result = "ok" /\ last'.client.apiKey = want]_vars

UnknownSid == MaxSessions + 1

\* C4: a terminated session is never registered again, and a POST, GET or
\* DELETE carrying its identifier takes the branch of, and gets the response
\* of, a request carrying an identifier that was never handed out.
C4_TerminatedIsFinal ==
    /\ \A s \in terminated :
         /\ s \notin transports
         /\ \A b \in Bodies :
              PostBranch(transports, s, b) = PostBranch(transports, UnknownSid, b)
         /\ GetBranch(transports, s) = GetBranch(transports, UnknownSid)
         /\ DeleteBranch(transports, s) = DeleteBranch(transports, UnknownSid)
    /\ (last.op \in {"post", "get"} /\ last.sid \in terminated) => last.status = 400
    /\ (last.op = "delete" /\ last.sid \in terminated /\ last.status # 400) =>
           last.sid \notin transports

\* a rejected request for a session that was terminated before
C4_Witness ==
    /\ last.op \in {"post", "get"}
    /\ last.sid \in terminated
    /\ last.status = 400

\* C5: a request with an unknown non-empty session id, or a non-initialize
\* request without one, gets HTTP 400 with a structured body (numeric error
\* code and message) on all three verbs, and changes nothing.
C5_StructuredRejection ==
    [][(HttpStep /\ last'.op # "post_init"
          /\ (last'.sid = NoSid \/ last'.sid \notin transports)) =>
         /\ last'.status = 400
         /\ last'.body = "jsonrpc"
         /\ last'.code # 0
         /\ UNCHANGED <<transports, clients, apiKeys, inflight>>]_vars

\* C6: a session initialized with a header carrying key K is registered with K
\* remembered and a client built from K, and until configure_datamerge runs
\* for it every tool call on the live session uses a client built from K.
C6_InitHeaderKeyIsUsed ==
    \A s \in Sids :
        Truthy(initAuth[s]) =>
            /\ s \in transports
            /\ clients[s] # NoClient
            /\ clients[s].apiKey = KeyOfHeader(initAuth[s])
            /\ (last.op = "post_init" /\ last.sid = s) =>
                   apiKeys[s] = KeyOfHeader(initAuth[s])
            /\ (last.op = "tool" /\ last.sid = s) =>
                   /\ last.result = "ok"
                   /\ last.client = clients[s]

\* a health_check ran on a session initialized with a key header, after the
\* remembered key was rotated by a later request
C6_Witness ==
    /\ last.op = "tool"
    /\ last.call.tool = "health_check"
    /\ Truthy(initAuth[last.sid])
    /\ last.client.apiKey = KeyA
    /\ apiKeys[last.sid] = KeyC

(* ================ claims on concurrent client lookups ================= *)

\* A tool other than configure_datamerge ran its client lookup for session s.
ToolLookupStep(s) ==
    ToolStep /\ last'.sid = s /\ last'.call.tool # "configure_datamerge"

\* The waiting tool call over HTTP ran its client lookup.
PollLookupStep == poll.pc = "idle" /\ poll'.pc # "idle" /\ poll'.variant = "http"

\* C2: a session has one client at a time, and a client lookup for a session
\* that has one returns it and constructs none: of two tool calls in flight on
\* a never-configured session, the second lookup returns the client the first
\* one stored.
C2_LookupReturnsStoredClient ==
    [][/\ \A s \in Sids :
            ToolLookupStep(s) =>
               /\ clients[s] # NoClient =>
                      clients'[s] = clients[s] /\ last'.client = clients[s]
               /\ last'.result = "ok" => last'.client = clients'[s]
       /\ PollLookupStep =>
               /\ clients[PollSid] # NoClient =>
                      /\ clients'[PollSid] = clients[PollSid]
                      /\ poll'.client = clients[PollSid]
               /\ poll'.kind # "NotConfigured" => poll'.client = clients'[PollSid]]_vars

\* two tool calls in flight on a never-configured session got the same client
C2_Witness ==
    /\ last.op = "tool"
    /\ last.call.tool = "health_check"
    /\ last.result = "ok"
    /\ poll.pc \in {"starting", "sleeping", "fetching"}
    /\ poll.client = last.client
    /\ clients[PollSid] = last.client
    /\ apiKeys[PollSid] = Undefined

(* ================= claims on the start-and-wait poller ================ *)

SuccessTokens == {"completed", "succeeded", "finished"}
FailureTokens == {"failed", "error", "errored", "cancelled"}

\* C7: a fetched job with a success-like status or a non-empty result list
\* is returned at once as a success, with no further upstream call; a job with
\* neither that nor a failure-like status is not terminal.
C7_SuccessLikeJobIsReturned ==
    poll.job # NoJob =>
        /\ (toLowerCase(poll.job.status) \in SuccessTokens \/ poll.job.results > 0) =>
               /\ poll.pc = "done"
               /\ poll.kind = "Success"
               /\ ~poll.isError
               /\ poll.gets = 0
        /\ (/\ toLowerCase(poll.job.status) \notin SuccessTokens \cup FailureTokens
            /\ poll.job.results = 0) =>
               poll.pc = "sleeping" \/ poll.kind = "TimedOut"

\* C8: a fetched job with a failure-like status is returned as an error
\* result, whether or not its result list is empty.
C8_FailureLikeJobIsError ==
    (poll.job # NoJob /\ toLowerCase(poll.job.status) \in FailureTokens) =>
        /\ poll.pc = "done"
        /\ poll.kind = "Failure"
        /\ poll.isError

MaxOf(S) == CHOOSE x \in S : \A y \in S : y <= x

\* C9: the TimedOut outcome is returned only when at least timeoutMs have
\* passed since the start call was issued (and since it returned), after at
\* least one status fetch, and within one sleep and one fetch of the deadline.
C9_NoEarlyTimeout ==
    poll.kind = "TimedOut" =>
        /\ poll.pc = "done"
        /\ now - poll.startCallAt >= poll.timeoutMs
        /\ now - poll.startedAt >= poll.timeoutMs
        /\ now - poll.startedAt <
               poll.timeoutMs + poll.pollIntervalMs + MaxOf(Lateness) + MaxOf(Durations)
        /\ poll.fetches >= 1
        /\ poll.sleeps = poll.fetches

\* poll_interval 1 s, timeout 2 s, never terminal: TimedOut 2000 ms after the
\* start call, after two fetches
C9_Witness ==
    /\ poll.kind = "TimedOut"
    /\ poll.args = WaitArgs(Num(1), Num(2))
    /\ now - poll.startCallAt = 2000
    /\ poll.fetches = 2

\* C10: when the start call gives back an error envelope or throws, the call
\* ends there with an error result: no sleep, no status fetch, no other call.
C10_StartFailureEndsCall ==
    poll.startResp \in {"error", "threw"} =>
        /\ poll.pc = "done"
        /\ poll.isError
        /\ poll.kind \in {"StartFailed", "StartThrew"}
        /\ poll.sleeps = 0
        /\ poll.fetches = 0
        /\ poll.gets = 0

\* the start call gave back an error envelope and the call ended in an error
C10_Witness ==
    /\ poll.startResp = "error"
    /\ poll.pc = "done"
    /\ poll.isError

\* An argument that is unspecified, not a number, zero or negative.
InvalidArg(a) == a.type # "number" \/ a.val <= 0

\* C11: once the waiting call has read its arguments, an invalid
\* poll_interval_seconds has given a 5-second interval and an invalid
\* timeout_seconds a 60-second timeout, a valid one its value; the interval is
\* positive, and every status fetch comes at least one interval after the
\* previous one.
C11_PollingDefaults ==
    (poll.pc # "idle" /\ poll.kind # "NotConfigured") =>
        /\ poll.pollIntervalMs =
               IF InvalidArg(poll.args.poll_interval_seconds) THEN 5000
               ELSE poll.args.poll_interval_seconds.val * 1000
        /\ poll.timeoutMs =
               IF InvalidArg(poll.args.timeout_seconds) THEN 60000
               ELSE poll.args.timeout_seconds.val * 1000
        /\ poll.pollIntervalMs > 0
        /\ poll.fetches > 0 => now - poll.startedAt >= poll.fetches * poll.pollIntervalMs

\* a call with poll_interval_seconds = 0 fetched the status 5 seconds or more
\* after the start call returned
C11_Witness ==
    /\ poll.args.poll_interval_seconds = Num(0)
    /\ poll.pollIntervalMs = 5000
    /\ poll.fetches = 1
    /\ now - poll.startedAt >= 5000

\* C12: the TimedOut result is not flagged isError and names the job id the
\* start call returned.
C12_TimedOutIsNotAnError ==
    poll.kind = "TimedOut" =>
        /\ ~poll.isError
        /\ poll.startResp = "ok"
        /\ poll.jobId # ""
        /\ poll.outJobId = poll.jobId

\* a call timed out and its result names job j1
C12_Witness ==
    /\ poll.kind = "TimedOut"
    /\ poll.pc = "done"
    /\ poll.outJobId = "j1"
    /\ ~poll.isError

\* C31: once a status fetch has given back a job with a success-like or a
\* failure-like status, the call issues no further status fetch.
C31_TerminalFetchIsLast ==
    [][(poll.job # NoJob
          /\ toLowerCase(poll.job.status) \in SuccessTokens \cup FailureTokens)
         => (poll'.fetches = poll.fetches /\ poll'.job = poll.job
               /\ poll'.pc \in {"getting", "done"})]_vars

\* the second status fetch gave back a failed job and the call ended there
C31_Witness ==
    /\ poll.pc = "done"
    /\ poll.kind = "Failure"
    /\ toLowerCase(poll.job.status) \in FailureTokens
    /\ poll.fetches = 2

\* C32: a status fetch that gives back an error envelope or throws ends the
\* call at once with an error result, also before the timeout has elapsed;
\* so does a company fetch that throws, and no call is issued after it.
C32_NoRetries ==
    [][/\ (poll.pc = "fetching" /\ poll' # poll /\ poll'.job = NoJob) =>
            /\ poll'.pc = "done"
            /\ poll'.isError
            /\ poll'.kind \in {"PollFailed", "PollThrew"}
            /\ poll'.fetches = poll.fetches
            /\ poll'.sleeps = poll.sleeps
       /\ (poll.pc = "getting" /\ poll' # poll /\ poll'.pending = poll.pending) =>
            /\ poll'.pc = "done"
            /\ poll'.isError
            /\ poll'.gets = poll.gets
       /\ poll.pc = "done" => poll' = poll]_vars

\* the first status fetch failed one second into a 60-second timeout and
\* the call has ended
C32_Witness ==
    /\ poll.pc = "done"
    /\ poll.kind = "PollFailed"
    /\ poll.isError
    /\ poll.fetches = 1
    /\ poll.timeoutMs = 60000
    /\ now - poll.startedAt < poll.timeoutMs

\* C33: a status fetch is issued only at the end of a sleep of at least the
\* poll interval, one sleep per fetch, the first sleep starting when the start
\* call returned; only a fetched job is classified, whatever status the start
\* response carried.
C33_SleepBeforeEveryFetch ==
    [][/\ poll'.fetches # poll.fetches =>
            /\ poll.pc = "sleeping"
            /\ poll'.fetches = poll.fetches + 1
            /\ poll.sleeps = poll'.fetches
            /\ now' - now >= poll.pollIntervalMs
       /\ poll'.sleeps \in {poll'.fetches, poll'.fetches + 1}
       /\ poll'.pc = "sleeping" <=> poll'.sleeps = poll'.fetches + 1
       /\ (poll.pc = "starting" /\ poll'.startResp = "ok") =>
            (poll'.fetches = 0 /\ poll'.kind \notin {"Success", "Failure"})
       /\ poll'.kind \in {"Success", "Failure"} =>
            (poll'.fetches >= 1 /\ poll'.job # NoJob)]_vars

\* the start response said completed; the call slept a full interval and
\* fetched before it returned a success
C33_Witness ==
    /\ poll.startStatus = "completed"
    /\ poll.kind = "Success"
    /\ poll.fetches = 1
    /\ poll.sleeps = 1
    /\ now - poll.startedAt >= poll.pollIntervalMs

\* The results a call can end with: terminal-success, terminal-failure,
\* TimedOut, and the error results.
C34_Outcomes ==
    {"Success", "Failure", "TimedOut",
     "NotConfigured", "StartThrew", "StartFailed", "PollThrew", "PollFailed", "GetThrew"}

\* C34: when every upstream call and every sleep completes, a call that has
\* begun eventually returns with exactly one outcome, which it keeps; the
\* number of status fetches stays below timeout / poll_interval + 1, so
\* the loop cannot go on for ever.
C34_EventuallyReturns ==
    /\ [](poll.fetches >= 1 =>
             (poll.fetches - 1) * poll.pollIntervalMs < poll.timeoutMs)
    /\ [](poll.pc = "done" <=> poll.kind \in C34_Outcomes)
    /\ [][poll.pc = "done" => poll'.kind = poll.kind]_vars
    /\ (poll.pc \in {"starting", "sleeping", "fetching", "getting"})
           ~> (poll.pc = "done" /\ poll.kind \in C34_Outcomes)

\* a call with the default timeout went round the loop to the end and
\* returned TimedOut after its twelfth status fetch
C34_Witness ==
    /\ poll.pc = "done"
    /\ poll.kind = "TimedOut"
    /\ poll.timeoutMs = DefaultTimeoutMs
    /\ poll.fetches = 12

\* A job that the loop body treats as final: a success-like or failure-like
\* status, or a first result.
C39_Terminal(job) ==
    /\ job # NoJob
    /\ \/ toLowerCase(job.status) \in SuccessTokens \cup FailureTokens
       \/ job.results > 0

\* C39: the timeout is looked at only when the start call or a status fetch
\* has just returned. A call whose start succeeded fetches at least once, a
\* sleeping call always goes on to its fetch, and a final job is never
\* reported as TimedOut, however late its fetch completed.
C39_TimeoutTestedBeforeSleep ==
    [][/\ (poll'.pc = "done" /\ poll'.startResp = "ok") => poll'.fetches >= 1
       /\ (poll'.kind = "TimedOut" /\ poll.kind # "TimedOut") =>
            (poll.pc = "fetching" /\ ~C39_Terminal(poll'.job))
       /\ (poll.pc = "starting" /\ poll'.startResp = "ok") => poll'.pc = "sleeping"
       /\ (poll.pc = "sleeping" /\ poll' # poll) => poll'.fetches = poll.fetches + 1
       /\ (poll'.pc = "done" /\ C39_Terminal(poll'.job)) =>
            poll'.kind \in {"Success", "Failure", "GetThrew"}]_vars

\* poll_interval (5 s) exceeds timeout (2 s): the first fetch completed
\* after the deadline with a final job, reported as a success
C39_Witness ==
    /\ poll.pollIntervalMs > poll.timeoutMs
    /\ poll.pc = "done"
    /\ poll.kind = "Success"
    /\ poll.fetches = 1
    /\ now - poll.startedAt >= poll.timeoutMs

\* ceil(a / b) for positive b
C40_CeilDiv(a, b) == (a + b - 1) \div b

\* C40 as stated: with upstream calls that take no time, a call that times
\* out has made exactly ceil(timeout / poll_interval) status fetches and
\* returns at least timeout and less than timeout + poll_interval after the
\* start call returned.
C40_ExactFetchCount ==
    poll.kind = "TimedOut" =>
        /\ poll.fetches = C40_CeilDiv(poll.timeoutMs, poll.pollIntervalMs)
        /\ now - poll.startedAt >= poll.timeoutMs
        /\ now - poll.startedAt < poll.timeoutMs + poll.pollIntervalMs

\* C40 amended: with upstream calls that take no time, a call that times out
\* has made at least one and at most ceil(timeout / poll_interval) status
\* fetches and returns no earlier than timeout after the start call
\* returned; when moreover every sleep lasted exactly poll_interval, the
\* fetches are exactly ceil(timeout / poll_interval) and the call returns
\* less than timeout + poll_interval after the start call returned.
C40_FetchCountWithinCeil ==
    poll.kind = "TimedOut" =>
        /\ poll.fetches >= 1
        /\ poll.fetches <= C40_CeilDiv(poll.timeoutMs, poll.pollIntervalMs)
        /\ now - poll.startedAt >= poll.timeoutMs
        /\ now - poll.startedAt = poll.fetches * poll.pollIntervalMs =>
              /\ poll.fetches = C40_CeilDiv(poll.timeoutMs, poll.pollIntervalMs)
              /\ now - poll.startedAt < poll.timeoutMs + poll.pollIntervalMs

\* a 3-second timeout polled every 2 seconds with exact sleeps: two fetches,
\* returned after 4 seconds
C40_Witness ==
    /\ poll.kind = "TimedOut"
    /\ poll.timeoutMs = 3000
    /\ poll.pollIntervalMs = 2000
    /\ poll.fetches = 2
    /\ now - poll.startedAt = 4000

\* Session s loses an entry of the transport, client or credential map.
C36_Removed(s) ==
    \/ s \in transports /\ s \notin transports'
    \/ clients[s] # NoClient /\ clients'[s] = NoClient
    \/ apiKeys[s] # Undefined /\ apiKeys'[s] = Undefined

\* C36: an entry of the transport, client or credential map goes away only
\* when the transport of its session closes (on its own or on a DELETE), and
\* only for a session that was registered; the close of a session that is
\* not registered leaves the three maps as they were.
C36_OnlyCloseRemoves ==
    [][/\ \A s \in Sids :
            C36_Removed(s) =>
                /\ last'.op \in {"close", "delete"}
                /\ last'.sid = s
                /\ s \in transports
       /\ (last'.op = "close" /\ last'.sid \notin transports) =>
            (transports' = transports /\ clients' = clients /\ apiKeys' = apiKeys)]_vars

\* session 1 closed, a tool call of it that was still in flight bound a
\* client to it, and its connection closed once more: the client is still
\* there
C36_Witness ==
    /\ last.op = "close"
    /\ last.sid \in terminated
    /\ last.sid \notin transports
    /\ clients[last.sid] # NoClient

(* ==================== claims on the tool dispatch ===================== *)

\* What makes a tool call fail, from the request and the state before it: no
\* credential to resolve, an unknown tool, arguments that do not validate,
\* an upstream non-2xx answer or error envelope (health_check reports the
\* upstream's state as its result and configure_datamerge calls no upstream;
\* its arguments are invalid when apiKey is the empty string, or absent with
\* no fallback, or baseUrl is no URL).
CallFails(d) ==
    IF d.call.name = "configure_datamerge"
    THEN \/ d.call.apiKey = <<>>
         \/ (d.call.apiKey = Undefined /\ ~Truthy(env))
         \/ d.call.baseUrl = BadUrl
    ELSE \/ d.call.name = "no_such_tool"
         \/ ~d.resolvable
         \/ ~d.call.valid
         \/ (d.call.name = "get_company" /\ d.up \in {"error", "non2xx"})

ConvenienceKeys ==
    { "id", "name", "domain", "website_url", "country_code", "global_ultimate",
      "parent_id", "ultimate_parent_id" }

IdentifyingKeys == {"legal_name", "display_name", "domain", "address1", "national_id"}

\* C14 as stated: the normalized record has every key of the raw record with
\* the raw value, and the eight convenience fields.
C14_NormalizationIsLossless ==
    rec.mapped =>
        /\ \A k \in RecordKeys : rec.raw[k] # Absent => rec.out[k] = rec.raw[k]
        /\ \A k \in ConvenienceKeys : rec.out[k] # Absent

\* C14 amended: every key of the raw record other than status keeps its raw
\* value, the eight convenience fields are there, and status either keeps its
\* raw value or was "not_found" / "no_query_match" and is now "success".
C14_LosslessButStatus ==
    rec.mapped =>
        /\ \A k \in RecordKeys \ {"status"} :
               rec.raw[k] # Absent => rec.out[k] = rec.raw[k]
        /\ \A k \in ConvenienceKeys : rec.out[k] # Absent
        /\ \/ rec.out.status = rec.raw.status
           \/ (rec.raw.status \in {"not_found", "no_query_match"}
                 /\ rec.out.status = "success")

\* a raw record with a name of its own, a field the mapper does not know and
\* no id was normalized
C14_Witness ==
    /\ rec.mapped
    /\ rec.raw.name = "N"
    /\ rec.raw.legal_name = "Acme Inc"
    /\ rec.raw.extra = "e"
    /\ rec.raw.id = Absent
    /\ rec.out.extra = "e"
    /\ rec.out.id = "d1"

RECURSIVE C35_FirstPresent(_, _)
C35_FirstPresent(values, default) ==
    IF values = <<>> THEN default
    ELSE IF JTruthy(Head(values)) THEN Head(values)
    ELSE C35_FirstPresent(Tail(values), default)

\* C35: the id of a normalized record is the first present of record_id, id,
\* datamerge_id of the raw record, and its name the first present of
\* display_name, legal_name, name, domain, else "Unknown".
C35_FirstPresentCandidate ==
    rec.mapped =>
        /\ rec.out.id =
              C35_FirstPresent(<<rec.raw.record_id, rec.raw.id, rec.raw.datamerge_id>>, "")
        /\ rec.out.name =
              C35_FirstPresent(<<rec.raw.display_name, rec.raw.legal_name, rec.raw.name,
                                 rec.raw.domain>>, "Unknown")

(* ================= claims on destroyed sessions ======================= *)

\* C16: a client lookup for a session whose transport has closed throws
\* NotConfigured when there is no fallback credential, and otherwise returns a
\* client built from the fallback: nothing the session held or holds is used.
C16_LookupAfterCloseUsesFallbackOnly ==
    [][/\ \A s \in terminated :
            ToolLookupStep(s) =>
                IF Truthy(env)
                THEN last'.result = "ok" /\ last'.client.apiKey = env
                ELSE last'.result = "isError"
       /\ (PollLookupStep /\ PollSid \in terminated) =>
                IF Truthy(env)
                THEN poll'.kind # "NotConfigured" /\ poll'.client.apiKey = env
                ELSE poll'.kind = "NotConfigured"]_vars

\* C17: a step that removes the transport handle, the client or the
\* remembered credential of a session leaves none of the three behind, so
\* that no handler, running between two steps, finds the session partly
\* removed.
C17_DestructionIsOneStep ==
    [][\A s \in Sids :
          (\/ s \in transports /\ s \notin transports'
           \/ clients[s] # NoClient /\ clients'[s] = NoClient
           \/ apiKeys[s] # Undefined /\ apiKeys'[s] = Undefined) =>
              /\ s \notin transports'
              /\ clients'[s] = NoClient
              /\ apiKeys'[s] = Undefined]_vars

\* the session of a waiting call that got its client from the session's
\* remembered key was destroyed while the call waits for the upstream
C17_Witness ==
    /\ PollSid \in terminated
    /\ poll.pc = "fetching"
    /\ poll.client.apiKey = KeyA
    /\ PollSid \notin transports
    /\ clients[PollSid] = NoClient
    /\ apiKeys[PollSid] = Undefined

\* C37: every upstream call of a waiting call goes through the client the
\* call began with, whatever has happened to the session since. A tool
\* call or a close on the session leaves the waiting call where it is.
C37_OneClientPerInvocation ==
    [][/\ poll.pc # "idle" => poll'.client = poll.client
       /\ (poll' # poll /\ poll'.pc \in {"starting", "fetching", "getting"}) =>
            (poll'.calledWith = poll'.client /\ poll'.client # NoClient)
       /\ last' # last => poll' = poll]_vars

\* the waiting call began with the client of key "a"; configure_datamerge
\* has bound a client of key "c" to the session, and the call's second
\* status fetch is under way through the client of "a"
C37_Witness ==
    /\ poll.pc = "fetching"
    /\ poll.fetches = 2
    /\ poll.calledWith.apiKey = KeyA
    /\ last.op = "tool"
    /\ clients[PollSid].apiKey = KeyC

(* ================ claims on the Authorization header ================== *)

\* Texts that may follow the scheme in a header.
HeaderKeys == {KeyA, KeyC, <<" ">> \o KeyC \o <<" ">>, <<" ">>, <<>>}

C20_KeyRequiredOnEveryRequest ==
    last.op \in HttpOps \cup {"health"} => last.status # 200

\* Some non-empty part of key occurs in text.
ContainsPartOf(text, key) ==
    \E i \in 1..Len(key) : \E j \in 1..Len(text) : text[j] = key[i]

\* C21: no log entry holds the remembered credential of a session or a part
\* of it.
C21_CredentialNeverLogged ==
    \A s \in Sids :
        Truthy(apiKeys[s]) => \A e \in log : ~ContainsPartOf(e.text, apiKeys[s])

\* C22: a step taken for session S leaves the transport handle, the client
\* and the remembered credential of every other session as they were, and
\* when every session sends a key of its own, the client and the remembered
\* credential of S and the client a tool call of S gets are built from the key
\* of S or from the fallback, never from the key of another session.
C22_SessionsAreIsolated ==
    [][/\ \A s \in Sids :
            s # last'.sid =>
                /\ (s \in transports') = (s \in transports)
                /\ clients'[s] = clients[s]
                /\ apiKeys'[s] = apiKeys[s]
       /\ \A s \in Sids :
            /\ clients'[s].apiKey \in {Undefined, env} \cup SessionKeys(s)
            /\ apiKeys'[s] \in {Undefined, env} \cup SessionKeys(s)
       /\ (ToolStep /\ last'.result = "ok") =>
            last'.client.apiKey \in {env} \cup SessionKeys(last'.sid)]_vars

\* two live sessions hold clients of different keys and a tool call of the
\* second one has just got its own
C22_Witness ==
    /\ transports = {1, 2}
    /\ clients[1].apiKey = SessionKey(1)
    /\ clients[2].apiKey = SessionKey(2)
    /\ last.op = "tool"
    /\ last.sid = 2
    /\ last.call.tool = "health_check"
    /\ last.result = "ok"
    /\ last.client = clients[2]

\* C23: a request of a known session that carries a key remembers that key
\* and leaves a client that is already built in place; the client of a session
\* is exchanged for another one only by a configure_datamerge call.
C23_RotationIsAsymmetric ==
    [][\A s \in Sids :
        /\ \A h \in SessionHeaders(s) :
             LET key == ExtractApiKey(h)
                 r == tryConfigureClientFromAuthHeader(Store, h, s)
             IN  /\ clients[s] # NoClient => r.clients[s] = clients[s]
                 /\ (Truthy(key) /\ Truthy(Trim(key))) => r.apiKeys[s] = Trim(key)
        /\ (HttpStep /\ last'.op \in {"post", "get"} /\ last'.sid = s
              /\ last'.status = 200 /\ clients[s] # NoClient)
             => clients'[s] = clients[s]
        /\ (clients[s] # NoClient /\ clients'[s] # NoClient /\ clients'[s] # clients[s])
             => /\ ToolStep
                /\ last'.sid = s
                /\ last'.call.tool = "configure_datamerge"
                /\ last'.result = "ok"]_vars

\* a request of a live session has carried the rotated key while the client
\* built from the first key stays
C23_Witness ==
    /\ last.op = "post"
    /\ last.status = 200
    /\ last.sid \in transports
    /\ apiKeys[last.sid] = RotatedKey(last.sid)
    /\ clients[last.sid] = DataMergeClient(NoClient, SessionKey(last.sid), Undefined)

\* C24: between the creation of the client of session S and the destruction
\* of S, the client bound to S (its identity, credential and base URL) never
\* changes.
C24_ClientNeverChanges ==
    [][\A s \in Sids :
        (clients[s] # NoClient /\ clients'[s] # NoClient) => clients'[s] = clients[s]]_vars

\* C24, amended: a client object keeps the credential and base URL it was
\* constructed with, and the client bound to S is exchanged only by a
\* configure_datamerge call of S that succeeds, for a newly constructed client
\* of that call's key (argument, else fallback) and base URL.
C24_ClientChangesOnlyByConfigure ==
    [][\A s \in Sids :
        clients[s] # NoClient =>
            \/ clients'[s] = clients[s]
            \/ clients'[s] = NoClient /\ s \notin transports'
                 /\ last'.op \in {"close", "delete"} /\ last'.sid = s
            \/ /\ ToolStep
               /\ last'.sid = s
               /\ last'.call.tool = "configure_datamerge"
               /\ last'.result = "ok"
               /\ clients'[s] = last'.client
               /\ clients'[s].id \notin {0, clients[s].id}
               /\ clients'[s].apiKey = Coalesce(last'.call.apiKey, env)
               /\ clients'[s].baseUrl = last'.call.baseUrl]_vars

\* a configure_datamerge call has put a second client in the place of the
\* first one of a live session
C24_Witness ==
    /\ last.op = "tool"
    /\ last.call.tool = "configure_datamerge"
    /\ last.result = "ok"
    /\ last.sid \in transports
    /\ clients[last.sid] = last.client
    /\ last.client.id = 2

\* C25: for every upstream outcome, a call of a client method that answers
\* with an envelope returns success = true, or success = false with an error
\* message; it never throws.
C25_TaggedEnvelope ==
    (apiCall.done /\ apiCall.method # "healthCheck" /\ apiCall.result.sent) =>
        /\ ~apiCall.result.threw
        /\ \/ apiCall.result.success = "true"
           \/ apiCall.result.success = "false" /\ apiCall.result.error # Absent

\* C26: healthCheck returns a boolean for every outcome of the probe, true
\* exactly when the probe request succeeded, and never throws.
C26_HealthCheckNeverThrows ==
    (apiCall.done /\ apiCall.method = "healthCheck") =>
        /\ ~apiCall.result.threw
        /\ apiCall.result.success \in {"true", "false"}
        /\ apiCall.result.success = "true" <=> apiCall.outcome.kind = "2xx"

\* a probe that timed out was answered with false
C26_Witness ==
    /\ apiCall.done
    /\ apiCall.method = "healthCheck"
    /\ apiCall.outcome.kind = "timeout"
    /\ apiCall.result.success = "false"
    /\ ~apiCall.result.threw

\* C30: getCompany rejects a parameter object without an identifier and
\* accepts one that carries an identifier such as company_id: "cmp_123".
C30_GetParamsNeedAnIdentifier ==
    (apiCall.done /\ apiCall.method = "getCompany") =>
        LET p == apiCall.args
            rejected == apiCall.result.threw /\ ~apiCall.result.sent
        IN  /\ p = NoArgs => rejected
            /\ (JTruthy(p.company_id) \/ JTruthy(p.domain) \/ JTruthy(p.company_name))
                 => (CompanyGetParamsV1Schema(p) /\ ~rejected)

\* C27: a tool call whose arguments fail the shape check is answered with an
\* error result and leaves the clients and the remembered credentials as they
\* were before the call.
C27_InvalidArgumentsChangeNothing ==
    [][(disp' # disp /\ ~disp'.call.valid) =>
            /\ disp'.result = "isError"
            /\ clients' = clients
            /\ apiKeys' = apiKeys
            /\ stdioClient' = stdioClient]_vars

\* C38: a configure_datamerge call that ends in an error result leaves the
\* remembered credentials and the clients as they were before the call.
C38_FailedConfigureChangesNothing ==
    [][(disp' # disp /\ disp'.call.name = "configure_datamerge"
          /\ disp'.result = "isError") =>
            /\ clients' = clients
            /\ apiKeys' = apiKeys
            /\ stdioClient' = stdioClient]_vars

\* The stdio server has just served a tools/call request.
StdioStep == disp' # disp /\ disp'.server = "stdio"

\* C28: the stdio server has no client before its first tool call; a tool
\* call keeps and uses the client there is, builds one from the fallback
\* credential when there is none, and with no client and no fallback ends in
\* an error result and creates none; a configure_datamerge call that succeeds
\* puts a new client of its key in the place of the old one, one that fails
\* leaves the client as it is.
C28_StdioSingleton ==
    [][StdioStep =>
         LET call == disp'.call IN
         /\ call.name \in {"get_company", "health_check"} =>
              /\ stdioClient # NoClient => stdioClient' = stdioClient
              /\ (stdioClient = NoClient /\ Truthy(env)) =>
                     stdioClient' = DataMergeClient(NoClient, env, Undefined)
              /\ (stdioClient = NoClient /\ ~Truthy(env)) =>
                     (stdioClient' = NoClient /\ disp'.result = "isError")
         /\ call.name = "configure_datamerge" =>
              IF disp'.result = "ok"
              THEN /\ stdioClient' # stdioClient
                   /\ stdioClient'.apiKey = Coalesce(call.apiKey, env)
                   /\ stdioClient'.baseUrl = call.baseUrl
              ELSE stdioClient' = stdioClient
         /\ call.name = "no_such_tool" => stdioClient' = stdioClient]_vars

\* a tool call was served by the configured client although a fallback
\* credential exists
C28_Witness ==
    /\ disp.server = "stdio"
    /\ disp.call.name = "health_check"
    /\ disp.result = "ok"
    /\ env = KeyB
    /\ stdioClient.apiKey = KeyC
    /\ stdioClient.id = 2

\* C29: the object getConfig returns equals the configuration the client was
\* constructed with and is not the object the client keeps; whatever the
\* caller writes into the objects it holds, the client's configuration, what a
\* later getConfig returns and the credential sent upstream stay those of the
\* construction.
C29_GetConfigReturnsACopy ==
    [][/\ objs'.config \notin objs'.got
       /\ objs'.heap[objs'.config] = objs'.given
       /\ \A a \in objs'.got \ objs.got : objs'.heap[a] = objs.given
       /\ objs'.authorization \in {Undefined, TokenPrefix \o objs.given.apiKey}]_vars

\* the caller has overwritten the key in an object getConfig returned, asked
\* again and got the key of the construction, and a request has gone out
C29_Witness ==
    /\ \E a \in objs.got : objs.heap[a].apiKey \notin {objs.given.apiKey, Undefined}
    /\ \E a \in objs.got : objs.heap[a] = objs.given /\ a = objs.next - 1
    /\ objs.authorization = TokenPrefix \o objs.given.apiKey

====
